---- MODULE Spec2Model ----
(***************************************************************************)
(* A model of pyanura's protocol engines:                                  *)
(*   - the AVSS segmented report assembler (anura/avss/client.py),         *)
(*   - the AVSS control-point mutex,                                       *)
(*   - the transceiver RPC token table (anura/transceiver/client.py),      *)
(*   - the AVSS firmware transfer with NACK backflow.                      *)
(* Each engine has its own specification over the shared variables.        *)
(***************************************************************************)
EXTENDS Integers, Sequences, FiniteSets, TLC

VARIABLES
    \* ---- AnuraSupervisor._transceiver_task and its node tasks ----
    tt_nodes,                    \* the nodes self.config gives to the transceiver
    tt_pc,                       \* _transceiver_task: "new", "connect" (in
                                 \* _transceiver_connect), "setup" (inside the task
                                 \* group, before the node tasks), "group" (awaiting
                                 \* the node tasks), "sleep" (after an Exception)
    tt_transceiver,              \* the connection of `transceiver`: "none",
                                 \* "connected", "lost"
    tt_connects,                 \* history: the number of connections established
    tt_node,                     \* per node, its _node_task: "none" (not spawned),
                                 \* "get_version", "probe_sleep", "reports",
                                 \* "error_sleep"
    \* ---- TransceiverClient.find_avss_node_by_address ----
    find_pc,                     \* "idle", "get_assigned_nodes", "get_connected_nodes"
                                 \* (awaiting that query), "iterating", "returned"
    find_notifications,          \* the queue of the call's notifications() scope
                                 \* (None outside the scope)
    find_result,                 \* "none", or what the call returned or raised
    find_answers,                \* history: is_assigned and is_connected as answered
    find_arrived,                \* history: the number of events dispatched
    find_discovered,             \* history: node_service_discovered for addr was
                                 \* dispatched after the call had started
    \* ---- BleakAVSSClient._request_raw and the responses of the node ----
    slot_q,                      \* self._cp_response_q (maxsize 1): the queued
                                 \* responses, each named by the request it answers
    slot_stage,                  \* _request_raw: "idle", "write" (in write_gatt_char),
                                 \* "get" (in wait_for(get))
    slot_request,                \* the number of the request in _request_raw (the
                                 \* k-th call is request k)
    slot_node,                   \* the requests the node has received and not
                                 \* answered yet
    slot_results,                \* history: per request, the response _request_raw
                                 \* returned (TimedOut: it raised TimeoutError)
    slot_indicate,               \* history: how the last _cp_indicate ended
    \* ---- TransceiverClient.__aexit__ ----
    exit_pc,                     \* "in" the scope, "closing" (in transport.close()),
                                 \* "left"
    conn_cancel,                 \* cancellation of self._connection_task: "none",
                                 \* "requested", "done" (the task group has aborted)
    transport_closed,            \* transport.close() has returned
    set_result_calls,            \* history: calls of self._disconnected.set_result
    \* ---- the transceiver client under the proxy sessions ----
    px_transceiver_disconnected, \* TransceiverClient._disconnected is resolved
    \* ---- TransceiverClient: method discovery ----
    known_methods,               \* TransceiverClient._known_methods: name -> id
    conn_pc,                     \* where connect() / discover_methods() stands
    discovered,                  \* history: a discovery response was received
    rq_sent,                     \* history: the request frames sent, each with the
                                 \* table and the position of connect() at its send
    \* ---- AnuraSupervisor._node_task ----
    nt_pc,                       \* where the node task is suspended
    nt_sessions,                 \* history: the number of proxy sessions opened
    nt_open,                     \* the task is inside `async with ProxyAVSSClient(...)`
    nt_probes,                   \* history: get_version failures in the current session
    nt_version_session,          \* history: the session get_version last returned on
    nt_on_open,                  \* history: the sessions on_avss_open was called on
    nt_reports,                  \* history: reports streamed in the current session
    nt_cancel,                   \* history: the task has been cancelled
    nt_cause,                    \* history: where the last Exception was raised
    \* ---- anura.marshalling.unmarshal ----
    um_struct,                   \* the decoded CBOR item handed to unmarshal
    um_results,                  \* per record type: None, or how unmarshal(cls, um_struct) ended
    \* ---- ProxyAVSSClient sessions on one transceiver client ----
    px_loop,                     \* per session: the state of self._loop_task
    px_notifications,            \* per session: the queue of the loop's notifications() scope
    px_report_buf,               \* per session: self._report_buf
    px_report_next,              \* per session: self._report_next_segment_number
    px_nack_queue,               \* per session: self._program_nack_queue
    px_disconnected,             \* per session: self._disconnected is done
    px_seen,                     \* history, per session: the events its loop has taken
    px_arrived,                  \* history: the number of events dispatched
    \* ---- AVSS report assembly (AVSSClient) ----
    report_buf,                  \* self._report_buf: None or a ReportBuffer
    report_next_segment_number,  \* self._report_next_segment_number
    on_report_callbacks,         \* self._on_report_callbacks (list of subscribers)
    report_parse,                \* per subscriber: the `parse` argument of its scope
    reports,                     \* per subscriber: the asyncio.Queue of its reports() scope
    wire,                        \* history: every segment handed to _on_report_notify
    raised,                      \* history: how the last _on_report_notify call ended
    report_at,                   \* history: per subscriber, for every report put on its
                                 \* queue, the number of segments on the wire by then
    \* ---- AVSS control point (AVSSClient._request) ----
    cp_locked,                   \* self._control_point_lock._locked
    cp_waiters,                  \* self._control_point_lock._waiters (FIFO of futures)
    cp_pc,                       \* per caller: where it is in _request
    cp_must_cancel,              \* per caller: a cancellation is pending on its task
    cp_written,                  \* history: the callers whose frame was written, in order
    \* ---- transceiver RPC (TransceiverClient) ----
    rpc_conn,                    \* "new", or "open" once connect() started the tasks
    pending_responses,           \* self._pending_responses: token -> future (the task
                                 \* whose request awaits it, or the state it was left in)
    rpc_fut,                     \* per task: the state of `response`, the future of its
                                 \* request: "none", "pending", "result", "error"
    rpc_pc,                      \* per task: "idle", "sending" (in _send), "awaiting"
                                 \* (its future); ping_task also "stopped"
    rpc_token,                   \* per task: `request_token` of its request
    recv_pc,                     \* recv_task: "idle", "reading", "ended" (end of stream),
                                 \* "cancelled", or the exception that ended it
    disconnected,                \* self._disconnected is resolved
    rpc_last,                    \* history: what recv_task did with the last message
    eof_outstanding,             \* history: the tasks still in the request they were
                                 \* awaiting when end-of-stream was reported
    \* ---- firmware transfer (AVSSClient.program_transfer) ----
    program_locked,              \* self._program_lock is held
    program_waiters,             \* the lock's waiters, in order
    program_nack_queue,          \* self._program_nack_queue: None, or the queued offsets
    prog_pc,                     \* per transfer task: "idle", "locking", "get" (in
                                 \* wait_for(get)), "timeout" (the 40 ms timer has fired,
                                 \* the task not resumed yet), "sleep", "write" (in
                                 \* _program_write), "returned", "aborted" (RuntimeError
                                 \* "Program transfer aborted"), "failed" (the write raised)
    prog_binary,                 \* per task: `binary`
    prog_chunk_size,             \* per task: `chunk_size`
    prog_att_mtu,                \* per transfer: its att_mtu argument
    prog_offset,                 \* per task: `offset`
    prog_written,                \* history: the frames handed to _program_write, in order
    prog_nacks,                  \* history: the number of program notifications so far
    \* ---- transceiver notifications (TransceiverClient.notifications) ----
    on_notification_callbacks,   \* self._on_notification_callbacks (list of callables)
    notifications,               \* per subscriber: the asyncio.Queue of its scope
    notif_pc,                    \* per subscriber: "idle", "iterating" (in its with
                                 \* block), "closed", or the exception that ended it
    notif_yielded,               \* history: per subscriber, what its generator yielded
    notif_arrived,               \* history: the number of notifications read so far;
                                 \* the k-th notification on the wire is called k
    \* ---- the reports() iterators of an AVSS session ----
    avss_disconnected,           \* AVSSClient._disconnected is resolved
    report_waiting,              \* the subscribers suspended in _generator's asyncio.wait
    report_end,                  \* per subscriber: "none", "closed" (it left its with
                                 \* block) or the exception that ended its iteration
    report_yielded,              \* history: per subscriber, what its generator yielded
    \* ---- _request_raw of the two bindings ----
    cp_binding,                  \* "none", or the class of the session: "bleak"
                                 \* (BleakAVSSClient) or "proxy" (ProxyAVSSClient)
    cp_stage,                    \* per caller, inside _request_raw: "none", "write" (in
                                 \* write_gatt_char), "get" (in wait_for(get)), "rpc" (in
                                 \* transceiver.avss_request)
    cp_opcode,                   \* per caller: `opcode` of its request (0: none)
    cp_response_q,               \* BleakAVSSClient._cp_response_q (maxsize 1)
    cp_last,                     \* history: the last request that ended: its task,
                                 \* opcode, the frame _request_raw returned, the outcome
    cp_indications               \* history: the number of response frames so far

reportVars == <<report_buf, report_next_segment_number, on_report_callbacks,
                report_parse, reports, wire, raised, report_at>>

cpVars == <<cp_locked, cp_waiters, cp_pc, cp_must_cancel, cp_written>>

rpcVars == <<rpc_conn, pending_responses, rpc_fut, rpc_pc, rpc_token,
             recv_pc, disconnected, rpc_last, eof_outstanding>>

progVars == <<program_locked, program_waiters, program_nack_queue, prog_pc,
              prog_binary, prog_chunk_size, prog_att_mtu, prog_offset, prog_written,
              prog_nacks>>

notifVars == <<on_notification_callbacks, notifications, notif_pc,
               notif_yielded, notif_arrived>>

iterVars == <<avss_disconnected, report_waiting, report_end, report_yielded>>

reqVars == <<cp_binding, cp_stage, cp_opcode, cp_response_q, cp_last,
             cp_indications>>

proxyVars == <<px_loop, px_notifications, px_report_buf, px_report_next,
               px_nack_queue, px_disconnected, px_seen, px_arrived>>

marshalVars == <<um_struct, um_results>>

coordVars == <<nt_pc, nt_sessions, nt_open, nt_probes, nt_version_session,
               nt_on_open, nt_reports, nt_cancel, nt_cause>>

discVars == <<known_methods, conn_pc, discovered, rq_sent>>

sessVars == <<px_transceiver_disconnected>>

exitVars == <<exit_pc, conn_cancel, transport_closed, set_result_calls>>

slotVars == <<slot_q, slot_stage, slot_request, slot_node, slot_results,
              slot_indicate>>

findVars == <<find_pc, find_notifications, find_result, find_answers,
              find_arrived, find_discovered>>

superVars == <<tt_nodes, tt_pc, tt_transceiver, tt_connects, tt_node>>

tailVars == <<discVars, sessVars, exitVars, slotVars, findVars, superVars>>

baseVars == <<reportVars, cpVars, rpcVars, progVars, notifVars, iterVars,
              reqVars, proxyVars, marshalVars, coordVars>>

lateVars == <<marshalVars, coordVars, tailVars>>

discRest == <<baseVars, sessVars, exitVars, slotVars, findVars, superVars>>

sessRest == <<baseVars, discVars, exitVars, slotVars, findVars, superVars>>

slotRest == <<baseVars, discVars, sessVars, exitVars, findVars, superVars>>

findRest == <<baseVars, discVars, sessVars, exitVars, slotVars, superVars>>

superRest == <<baseVars, discVars, sessVars, exitVars, slotVars, findVars>>

exitRest == <<reportVars, cpVars, progVars, notifVars, iterVars, reqVars,
              proxyVars, marshalVars, coordVars, discVars, sessVars, slotVars,
              findVars, superVars>>

moreVars == <<proxyVars, lateVars>>

extVars == <<notifVars, iterVars, reqVars, moreVars>>

vars == <<reportVars, cpVars, rpcVars, progVars, extVars>>

(***************************************************************************)
(* Python values                                                           *)
(***************************************************************************)
None == <<>>
Some(x) == <<x>>

RECURSIVE BitAnd(_, _)
\* Python's & on non-negative integers.
BitAnd(a, b) ==
    IF a = 0 \/ b = 0 THEN 0
    ELSE (a % 2) * (b % 2) + 2 * BitAnd(a \div 2, b \div 2)

(***************************************************************************)
(* AVSS report assembly                                                    *)
(***************************************************************************)
SEGMENT_FIRST == 128
SEGMENT_LAST == 64
SEGMENT_NUMBER_MASK == 63

\* The number of segments one behaviour hands to the assembler.
MaxSegments == 3

\* Subscribers (reports() scopes) of the session.
Subs == {1, 2}

\* Segment numbers on the wire: the wrap 63 -> 0 and the plain step 0 -> 1.
SegNums == {63, 0, 1}
SegFlags == {0, SEGMENT_LAST, SEGMENT_FIRST, SEGMENT_FIRST + SEGMENT_LAST}
\* The payload sent under each segment number (5 = ReportType.Settings), so
\* that the bytes of different segments differ.
PayloadOf(n) == CASE n = 63 -> <<5>> [] n = 0 -> <<6, 7>> [] OTHER -> <<8>>
\* A segment is the notified characteristic value: header byte, then payload.
\* Every header with its payload, and the header-only segments that start a
\* record at number 63 (an empty first payload, an empty one-segment record).
Segments ==
    {<<f + n>> \o PayloadOf(n) : f \in SegFlags, n \in SegNums}
    \cup {<<f + 63>> : f \in {SEGMENT_FIRST, SEGMENT_FIRST + SEGMENT_LAST}}

\* ReportBuffer.__init__
NewReportBuffer == [buffer |-> << >>, num_segments |-> 0, finished |-> FALSE]

\* ReportBuffer.append_segment, past its finished check
AppendSegment(buf, segment_payload) ==
    [buf EXCEPT !.buffer = buf.buffer \o segment_payload,
                !.num_segments = buf.num_segments + 1]

\* Report.from_record, for a record of at least one byte (record[0] raises
\* IndexError on an empty one); transfer_info keeps its deterministic fields.
FromRecord(record, num_segments) ==
    [report_type |-> Head(record),
     payload_cbor |-> Tail(record),
     num_bytes |-> Len(record),
     num_segments |-> num_segments]

\* The report types Report.parse has a class for (ReportType.Snippet ..
\* ReportType.Capture).
ReportClasses == {2, 3, 4, 5, 6}

\* Report.parse by its outcome: None for a type without a class; otherwise
\* cbor2.loads and unmarshal either build the typed report or raise.  The
\* body <<6, 7>> stands for the well-formed bodies, every other body for the
\* malformed ones (an empty body, a body that is no map of the fields).
Parse(report) ==
    IF report.report_type \notin ReportClasses THEN [outcome |-> "None"]
    ELSE IF report.payload_cbor = <<6, 7>>
    THEN [outcome |-> "parsed",
          parsed |-> [class |-> report.report_type, of |-> report]]
    ELSE [outcome |-> "raises"]

\* The callback of a reports(parse) scope: put the report, or the typed
\* report parsed from it, in the queue; a report without a class is skipped
\* and an exception of parse() leaves the callback.
Callback(queue, report, parse) ==
    IF ~parse THEN [queue |-> Append(queue, report), raised |-> FALSE]
    ELSE LET p == Parse(report)
         IN IF p.outcome = "parsed"
            THEN [queue |-> Append(queue, p.parsed), raised |-> FALSE]
            ELSE [queue |-> queue, raised |-> p.outcome = "raises"]

RECURSIVE DeliverUntilError(_, _, _, _)
\* A delivery loop that ends at the first callback that raises.
DeliverUntilError(callbacks, parse, queues, report) ==
    IF callbacks = << >> THEN queues
    ELSE LET c == Callback(queues[Head(callbacks)], report, parse[Head(callbacks)])
         IN IF c.raised THEN queues
            ELSE DeliverUntilError(Tail(callbacks), parse,
                                   [queues EXCEPT ![Head(callbacks)] = c.queue],
                                   report)

RECURSIVE Deliver(_, _, _, _)
\* for callback in self._on_report_callbacks: try: callback(report)
\* except Exception: logger.error(...)
Deliver(callbacks, parse, queues, report) ==
    IF callbacks = << >> THEN queues
    ELSE Deliver(Tail(callbacks), parse,
                 [queues EXCEPT ![Head(callbacks)] =
                     Callback(@, report, parse[Head(callbacks)]).queue],
                 report)

\* A successor that forgets the 6-bit mask.
NextSegmentNumberNoMask(n) == n + 1

\* self._report_next_segment_number + 1, masked
NextSegmentNumber(n) == BitAnd(n + 1, SEGMENT_NUMBER_MASK)

\* A FIRST that keeps the buffer of the record in progress.
StartBufferKeep(buf0, first) ==
    IF first /\ buf0 = None THEN Some(NewReportBuffer) ELSE buf0

\* if segment_hdr & SEGMENT_FIRST: self._report_buf = ReportBuffer()
StartBuffer(buf0, first) == IF first THEN Some(NewReportBuffer) ELSE buf0

\* A check that accepts every segment number.
IsExpectedAny(next, segment_number) == TRUE

\* if self._report_next_segment_number == segment_number
IsExpected(next, segment_number) == next = segment_number

\* AVSSClient._on_report_notify as a function of the assembly state: the
\* state it leaves and how the call ended.
Notify(buf0, next0, callbacks, parse, queues, segment) ==
    LET unchanged == [buf |-> buf0, next |-> next0, queues |-> queues]
    IN
    IF Len(segment) = 0
    THEN unchanged @@ [raised |-> "IndexError"]           \* segment[0]
    ELSE
    LET segment_hdr == segment[1]
        segment_number == BitAnd(segment_hdr, SEGMENT_NUMBER_MASK)
        segment_payload == Tail(segment)
        first == BitAnd(segment_hdr, SEGMENT_FIRST) # 0
        last == BitAnd(segment_hdr, SEGMENT_LAST) # 0
        buf1 == StartBuffer(buf0, first)
        next1 == IF first THEN segment_number ELSE next0
    IN
    IF buf1 = None
    THEN [buf |-> buf1, next |-> next1, queues |-> queues, raised |-> "no"]
    ELSE IF ~IsExpected(next1, segment_number)
    THEN [buf |-> None, next |-> next1, queues |-> queues, raised |-> "no"]
    ELSE IF buf1[1].finished
    THEN [buf |-> buf1, next |-> next1, queues |-> queues,
          raised |-> "RuntimeError"]                       \* append_segment
    ELSE
    LET buf2 == AppendSegment(buf1[1], segment_payload)
        next2 == NextSegmentNumber(next1)
    IN
    IF ~last
    THEN [buf |-> Some(buf2), next |-> next2, queues |-> queues, raised |-> "no"]
    ELSE IF buf2.buffer = << >>
    THEN [buf |-> Some([buf2 EXCEPT !.finished = TRUE]), next |-> next2,
          queues |-> queues, raised |-> "IndexError"]      \* record[0] in finish()
    ELSE [buf |-> None, next |-> next2,
          queues |-> Deliver(callbacks, parse, queues,
                             FromRecord(buf2.buffer, buf2.num_segments)),
          raised |-> "no"]

\* A report notification arrives (either binding calls _on_report_notify).
OnReportNotify(segment) ==
    /\ Len(wire) < MaxSegments
    /\ LET r == Notify(report_buf, report_next_segment_number,
                       on_report_callbacks, report_parse, reports, segment)
       IN /\ report_buf' = r.buf
          /\ report_next_segment_number' = r.next
          /\ reports' = r.queues
          /\ raised' = r.raised
          /\ report_at' =
                [s \in Subs |->
                    report_at[s] \o [i \in 1..(Len(r.queues[s]) - Len(reports[s]))
                                        |-> Len(wire) + 1]]
    /\ wire' = Append(wire, segment)
    /\ UNCHANGED <<on_report_callbacks, report_parse, cpVars, rpcVars, progVars, extVars>>

\* with client.reports(parse): the scope is entered.
ReportsEnter(s, parse) ==
    /\ \A i \in 1..Len(on_report_callbacks) : on_report_callbacks[i] # s
    /\ on_report_callbacks' = Append(on_report_callbacks, s)
    /\ report_parse' = [report_parse EXCEPT ![s] = parse]
    /\ reports' = [reports EXCEPT ![s] = << >>]
    /\ report_at' = [report_at EXCEPT ![s] = << >>]
    /\ UNCHANGED <<report_buf, report_next_segment_number, wire, raised,
                   cpVars, rpcVars, progVars, extVars>>

(***************************************************************************)
(* The reports() iterators: each scope has a queue its callback fills and  *)
(* a generator that waits for the queue or for the session's disconnection. *)
(***************************************************************************)
\* asyncio.Queue.get taking the newest item instead of the oldest.
QueueGetLast(queue) ==
    [item |-> queue[Len(queue)], queue |-> SubSeq(queue, 1, Len(queue) - 1)]

\* asyncio.Queue.get on a queue that holds an item.
QueueGet(queue) == [item |-> Head(queue), queue |-> Tail(queue)]

\* A wait that only the get task can end.
WaitDoneGetOnly(queue, disc) ==
    IF queue # << >> THEN "get" ELSE "pending"

\* done of asyncio.wait((get, self._disconnected), FIRST_COMPLETED) as the
\* generator sees it: the get task, started first, has taken an item if the
\* queue held one; else the disconnection future if it is resolved.
WaitDone(queue, disc) ==
    IF queue # << >> THEN "get"
    ELSE IF disc THEN "disconnected"
    ELSE "pending"

\* self._on_report_callbacks.remove(callback)
RemoveCallback(callbacks, s) == SelectSeq(callbacks, LAMBDA c : c # s)

\* The consumer of scope s asks its generator for the next report.
ReportAnext(s) ==
    /\ \E i \in 1..Len(on_report_callbacks) : on_report_callbacks[i] = s
    /\ s \notin report_waiting
    /\ report_waiting' = report_waiting \cup {s}
    /\ UNCHANGED <<avss_disconnected, report_end, report_yielded, reportVars,
                   cpVars, rpcVars, progVars, moreVars, notifVars, reqVars>>

\* _generator: get is in done, yield get.result()
ReportYield(s) ==
    /\ s \in report_waiting
    /\ WaitDone(reports[s], avss_disconnected) = "get"
    /\ LET got == QueueGet(reports[s])
       IN /\ report_yielded' = [report_yielded EXCEPT ![s] = Append(@, got.item)]
          /\ reports' = [reports EXCEPT ![s] = got.queue]
    /\ report_waiting' = report_waiting \ {s}
    /\ UNCHANGED <<avss_disconnected, report_end, report_buf,
                   report_next_segment_number, on_report_callbacks, report_parse,
                   wire, raised, report_at, cpVars, rpcVars, progVars, moreVars, notifVars, reqVars>>

\* _generator: only self._disconnected is in done; DisconnectedError leaves
\* the generator and the with block, whose finally removes the callback.
ReportDisconnected(s) ==
    /\ s \in report_waiting
    /\ WaitDone(reports[s], avss_disconnected) = "disconnected"
    /\ report_waiting' = report_waiting \ {s}
    /\ report_end' = [report_end EXCEPT ![s] = "DisconnectedError"]
    /\ on_report_callbacks' = RemoveCallback(on_report_callbacks, s)
    /\ UNCHANGED <<avss_disconnected, report_yielded, report_buf,
                   report_next_segment_number, report_parse, reports, wire,
                   raised, report_at, cpVars, rpcVars, progVars, moreVars, notifVars, reqVars>>

\* The consumer leaves its with block between two reports.
ReportsExit(s) ==
    /\ \E i \in 1..Len(on_report_callbacks) : on_report_callbacks[i] = s
    /\ s \notin report_waiting
    /\ report_end' = [report_end EXCEPT ![s] = "closed"]
    /\ on_report_callbacks' = RemoveCallback(on_report_callbacks, s)
    /\ UNCHANGED <<avss_disconnected, report_waiting, report_yielded, report_buf,
                   report_next_segment_number, report_parse, reports, wire,
                   raised, report_at, cpVars, rpcVars, progVars, moreVars, notifVars, reqVars>>

\* The binding resolves self._disconnected: bleak's disconnected callback,
\* or the end of the proxy's notification loop.
AvssDisconnect ==
    /\ ~avss_disconnected
    /\ avss_disconnected' = TRUE
    /\ UNCHANGED <<report_waiting, report_end, report_yielded, reportVars,
                   cpVars, rpcVars, progVars, moreVars, notifVars, reqVars>>

IterInit ==
    /\ avss_disconnected = FALSE
    /\ report_waiting = {}
    /\ report_end = [s \in Subs |-> "none"]
    /\ report_yielded = [s \in Subs |-> << >>]

(***************************************************************************)
(* AVSS control point: _request runs _request_impl under the session's     *)
(* asyncio.Lock.  A caller is "idle", "waiting" (suspended in acquire),    *)
(* "inflight" (its frame written, awaiting _request_raw) or back to idle.  *)
(***************************************************************************)
\* Tasks that call control-point operations on the session.
CpCallers == {1, 2, 3}

\* The number of control-point requests one behaviour starts.
MaxCpRequests == 4

\* A lock that is taken whatever its state.
LockIsFreeAlways(locked, waiters) == TRUE

\* asyncio.Lock.acquire's fast path: not locked, and every waiter cancelled.
LockIsFree(locked, waiters) ==
    /\ ~locked
    /\ \A i \in 1..Len(waiters) : waiters[i].fut = "cancelled"

\* asyncio.Lock._wake_up_first: resolve the first waiter's future if pending.
WakeUpFirst(waiters) ==
    IF waiters # << >> /\ waiters[1].fut = "pending"
    THEN [waiters EXCEPT ![1].fut = "done"]
    ELSE waiters

\* self._waiters.remove(fut)
RemoveWaiter(waiters, c) ==
    SelectSeq(waiters, LAMBDA w : w.task # c)

WaiterOf(c) ==
    LET i == CHOOSE i \in 1..Len(cp_waiters) : cp_waiters[i].task = c
    IN cp_waiters[i]

\* _request: async with self._control_point_lock, then _request_impl up to
\* its first suspension; with the lock free the frame is written at once.
CpRequest(c) ==
    /\ cp_pc[c] = "idle"
    /\ Len(cp_written) + Cardinality({d \in CpCallers : cp_pc[d] = "waiting"})
          < MaxCpRequests
    /\ IF LockIsFree(cp_locked, cp_waiters)
       THEN /\ cp_locked' = TRUE
            /\ cp_pc' = [cp_pc EXCEPT ![c] = "inflight"]
            /\ cp_written' = Append(cp_written, c)
            /\ UNCHANGED cp_waiters
       ELSE /\ cp_waiters' = Append(cp_waiters, [task |-> c, fut |-> "pending"])
            /\ cp_pc' = [cp_pc EXCEPT ![c] = "waiting"]
            /\ UNCHANGED <<cp_locked, cp_written>>
    /\ UNCHANGED <<cp_must_cancel, reportVars, rpcVars, progVars, extVars>>

\* A waiter whose future was resolved runs again: it leaves the waiter list,
\* takes the lock and writes its frame; with a cancellation pending it
\* raises CancelledError instead, passing the wake-up on if the lock is free.
CpResume(c) ==
    /\ cp_pc[c] = "waiting"
    /\ WaiterOf(c).fut # "pending"
    /\ IF WaiterOf(c).fut = "cancelled" \/ cp_must_cancel[c]
       THEN /\ cp_waiters' = IF cp_locked THEN RemoveWaiter(cp_waiters, c)
                              ELSE WakeUpFirst(RemoveWaiter(cp_waiters, c))
            /\ cp_pc' = [cp_pc EXCEPT ![c] = "idle"]
            /\ cp_must_cancel' = [cp_must_cancel EXCEPT ![c] = FALSE]
            /\ UNCHANGED <<cp_locked, cp_written>>
       ELSE /\ cp_waiters' = RemoveWaiter(cp_waiters, c)
            /\ cp_locked' = TRUE
            /\ cp_pc' = [cp_pc EXCEPT ![c] = "inflight"]
            /\ cp_written' = Append(cp_written, c)
            /\ UNCHANGED cp_must_cancel
    /\ UNCHANGED <<reportVars, rpcVars, progVars, extVars>>

\* _request_raw returns the response or raises (timeout, disconnection,
\* transport error, cancellation): _request_impl ends either way and the
\* async with releases the lock.
CpFinish(c) ==
    /\ cp_pc[c] = "inflight"
    /\ cp_locked' = FALSE
    /\ cp_waiters' = WakeUpFirst(cp_waiters)
    /\ cp_pc' = [cp_pc EXCEPT ![c] = "idle"]
    /\ UNCHANGED <<cp_must_cancel, cp_written, reportVars, rpcVars, progVars, extVars>>

\* The task of a caller suspended in acquire is cancelled: a pending future
\* is cancelled with it, a resolved one leaves the cancellation pending.
CpCancelWaiter(c) ==
    /\ cp_pc[c] = "waiting"
    /\ ~cp_must_cancel[c]
    /\ WaiterOf(c).fut # "cancelled"
    /\ IF WaiterOf(c).fut = "pending"
       THEN /\ cp_waiters' = [i \in 1..Len(cp_waiters) |->
                                 IF cp_waiters[i].task = c
                                 THEN [cp_waiters[i] EXCEPT !.fut = "cancelled"]
                                 ELSE cp_waiters[i]]
            /\ UNCHANGED cp_must_cancel
       ELSE /\ cp_must_cancel' = [cp_must_cancel EXCEPT ![c] = TRUE]
            /\ UNCHANGED cp_waiters
    /\ UNCHANGED <<cp_locked, cp_pc, cp_written, reportVars, rpcVars, progVars, extVars>>

(***************************************************************************)
(* _request_impl over _request_raw of the two bindings, and the outcome    *)
(* _request_impl makes of the frame _request_raw returns.                  *)
(***************************************************************************)
\* OpCode (the members the model uses)
OpCode ==
    [ResponseCode |-> 1, GetVersion |-> 5, GetVersionResponse |-> 6,
     WriteSettings |-> 7, WriteSettingsResponse |-> 8,
     ApplySettingsResponse |-> 11, WriteSettingsV2Response |-> 15,
     GetFirmwareInfo |-> 18, GetFirmwareInfoResponse |-> 19]

\* ResponseCode
ResponseCode ==
    [OK |-> 1, Error |-> 2, OpCodeUnsupported |-> 3, Busy |-> 4, BadArgument |-> 5]

\* response_map of _request_impl: response opcode -> record class
ResponseMap ==
    (OpCode.GetVersionResponse :> "GetVersionResponse")
    @@ (OpCode.WriteSettingsResponse :> "WriteSettingsResponse")
    @@ (OpCode.WriteSettingsV2Response :> "WriteSettingsV2Response")
    @@ (OpCode.ApplySettingsResponse :> "ApplySettingsResponse")
    @@ (OpCode.GetFirmwareInfoResponse :> "GetFirmwareInfoResponse")

Returns_(value) == [kind |-> "returns", value |-> value]
Raises_(error) == [kind |-> "raises", value |-> error]

\* from_response_code that knows no variant.
FromResponseCodeFlat(rc) ==
    IF rc = ResponseCode.OK THEN Raises_("ValueError")
    ELSE Returns_("AVSSControlPointError")

\* AVSSControlPointError.from_response_code
FromResponseCode(rc) ==
    IF rc = ResponseCode.OK THEN Raises_("ValueError")
    ELSE IF rc = ResponseCode.Error THEN Returns_("AVSSControlPointError")
    ELSE IF rc = ResponseCode.OpCodeUnsupported
    THEN Returns_("AVSSOpCodeUnsupportedError")
    ELSE IF rc = ResponseCode.Busy THEN Returns_("AVSSBusyError")
    ELSE IF rc = ResponseCode.BadArgument THEN Returns_("AVSSBadArgumentError")
    ELSE Returns_("AVSSControlPointError")

\* unmarshal(response_cls, cbor2.loads(body)): the body 6 7 stands for the
\* CBOR map of the class; no other body of the model decodes to it.
UnmarshalResponse(response_cls, body) ==
    IF body = <<6, 7>> THEN Returns_(response_cls)
    ELSE Raises_("DecodeError")

\* _request_impl from `response_opcode = chrc_value[0]` on.
RequestOutcome(opcode, chrc_value) ==
    IF Len(chrc_value) = 0 THEN Raises_("IndexError")
    ELSE
    LET response_opcode == chrc_value[1]
    IN IF response_opcode = OpCode.ResponseCode
       THEN IF Len(chrc_value) < 3 THEN Raises_("IndexError")
            ELSE LET response_code == chrc_value[3]
                 IN IF response_code # ResponseCode.OK
                    THEN LET e == FromResponseCode(response_code)
                         IN IF e.kind = "returns" THEN Raises_(e.value) ELSE e
                    ELSE Returns_("None")
       ELSE IF response_opcode \in DOMAIN ResponseMap
       THEN UnmarshalResponse(ResponseMap[response_opcode], Tail(chrc_value))
       ELSE Raises_("AVSSProtocolError")

\* The opcodes of the requests whose outcome is examined.
RequestOpcodes == {OpCode.GetVersion, OpCode.WriteSettings, OpCode.GetFirmwareInfo}

\* The opcodes echoed in status frames.
EchoedOpcodes == {OpCode.GetVersion, OpCode.WriteSettings}

\* The frames a node answers with: status frames for either opcode and
\* every code from 0 to 6, typed responses with a body that decodes and with
\* one that does not, a request opcode and 0 as first byte, and frames cut
\* short.
ResponseFrames ==
    {<<OpCode.ResponseCode, op, code>> : op \in EchoedOpcodes, code \in 0..6}
    \cup {<<op, 6, 7>> : op \in DOMAIN ResponseMap}
    \cup {<<OpCode.GetVersionResponse>>, <<OpCode.WriteSettingsResponse, 8>>}
    \cup {<<OpCode.WriteSettings, 6, 7>>, <<0, 6, 7>>}
    \cup {<< >>, <<OpCode.ResponseCode>>, <<OpCode.ResponseCode, OpCode.GetVersion>>}

\* The number of response frames in one behaviour.
MaxIndications == 2

\* The session object is created: BleakAVSSClient(addr) or
\* ProxyAVSSClient(transceiver, address).
OpenSession(binding) ==
    /\ cp_binding = "none"
    /\ cp_binding' = binding
    /\ UNCHANGED <<cp_stage, cp_opcode, cp_response_q, cp_last, cp_indications,
                   reportVars, cpVars, rpcVars, progVars, moreVars, notifVars, iterVars>>

\* _request_impl ends (return or raise) and async with releases the lock.
CpEnds(c, chrc_value, outcome) ==
    /\ cp_locked' = FALSE
    /\ cp_waiters' = WakeUpFirst(cp_waiters)
    /\ cp_pc' = [cp_pc EXCEPT ![c] = "idle"]
    /\ cp_stage' = [cp_stage EXCEPT ![c] = "none"]
    /\ cp_opcode' = [cp_opcode EXCEPT ![c] = 0]
    /\ cp_last' = [task |-> c, opcode |-> cp_opcode[c], frame |-> chrc_value,
                   outcome |-> outcome]
    /\ UNCHANGED <<cp_must_cancel, cp_written>>

\* BleakAVSSClient._request_raw up to its first suspension: lingering
\* responses are flushed and write_gatt_char is called.
BleakRequestRaw(c, opcode) ==
    /\ cp_binding = "bleak"
    /\ cp_pc[c] = "inflight"
    /\ cp_stage[c] = "none"
    /\ cp_response_q' = << >>
    /\ cp_stage' = [cp_stage EXCEPT ![c] = "write"]
    /\ cp_opcode' = [cp_opcode EXCEPT ![c] = opcode]
    /\ UNCHANGED <<cp_binding, cp_last, cp_indications,
                   reportVars, cpVars, rpcVars, progVars, moreVars, notifVars, iterVars>>

\* write_gatt_char returns: wait_for(self._cp_response_q.get(), timeout)
BleakWriteDone(c) ==
    /\ cp_stage[c] = "write"
    /\ cp_stage' = [cp_stage EXCEPT ![c] = "get"]
    /\ UNCHANGED <<cp_binding, cp_opcode, cp_response_q, cp_last, cp_indications,
                   reportVars, cpVars, rpcVars, progVars, moreVars, notifVars, iterVars>>

\* write_gatt_char raises (the node is not connected).
BleakWriteFail(c) ==
    /\ cp_stage[c] = "write"
    /\ CpEnds(c, << >>, Raises_("BleakError"))
    /\ UNCHANGED <<cp_binding, cp_response_q, cp_indications,
                   reportVars, rpcVars, progVars, moreVars, notifVars, iterVars>>

\* _cp_indicate: put_nowait on the one-slot queue (QueueFull is raised to
\* bleak if the slot is taken).
CpIndicate(data) ==
    /\ cp_binding = "bleak"
    /\ ~avss_disconnected
    /\ cp_indications < MaxIndications
    /\ cp_indications' = cp_indications + 1
    /\ cp_response_q' = IF Len(cp_response_q) >= 1 THEN cp_response_q
                        ELSE Append(cp_response_q, data)
    /\ UNCHANGED <<cp_binding, cp_stage, cp_opcode, cp_last,
                   reportVars, cpVars, rpcVars, progVars, moreVars, notifVars, iterVars>>

\* wait_for returns the queued frame; _request_impl decodes it.
BleakGet(c) ==
    /\ cp_stage[c] = "get"
    /\ cp_response_q # << >>
    /\ cp_response_q' = Tail(cp_response_q)
    /\ CpEnds(c, Head(cp_response_q), RequestOutcome(cp_opcode[c], Head(cp_response_q)))
    /\ UNCHANGED <<cp_binding, cp_indications,
                   reportVars, rpcVars, progVars, moreVars, notifVars, iterVars>>

\* wait_for's timer fires with nothing queued: TimeoutError.
BleakTimeout(c) ==
    /\ cp_stage[c] = "get"
    /\ cp_response_q = << >>
    /\ CpEnds(c, << >>, Raises_("TimeoutError"))
    /\ UNCHANGED <<cp_binding, cp_response_q, cp_indications,
                   reportVars, rpcVars, progVars, moreVars, notifVars, iterVars>>

\* ProxyAVSSClient._request_raw up to its suspension in
\* self.transceiver.avss_request(self.address, req); `timeout` is not used.
ProxyRequestRaw(c, opcode) ==
    /\ cp_binding = "proxy"
    /\ cp_pc[c] = "inflight"
    /\ cp_stage[c] = "none"
    /\ cp_stage' = [cp_stage EXCEPT ![c] = "rpc"]
    /\ cp_opcode' = [cp_opcode EXCEPT ![c] = opcode]
    /\ UNCHANGED <<cp_binding, cp_response_q, cp_last, cp_indications,
                   reportVars, cpVars, rpcVars, progVars, moreVars, notifVars, iterVars>>

\* The transceiver answers avss_request with a result: result[0] is the
\* frame _request_impl decodes.
ProxyRpcResult(c, data) ==
    /\ cp_stage[c] = "rpc"
    /\ cp_indications < MaxIndications
    /\ cp_indications' = cp_indications + 1
    /\ CpEnds(c, data, RequestOutcome(cp_opcode[c], data))
    /\ UNCHANGED <<cp_binding, cp_response_q,
                   reportVars, rpcVars, progVars, moreVars, notifVars, iterVars>>

\* The transceiver answers avss_request with an error: RequestError.
ProxyRpcError(c) ==
    /\ cp_stage[c] = "rpc"
    /\ CpEnds(c, << >>, Raises_("RequestError"))
    /\ UNCHANGED <<cp_binding, cp_response_q, cp_indications,
                   reportVars, rpcVars, progVars, moreVars, notifVars, iterVars>>

ReqInit ==
    /\ cp_binding = "none"
    /\ cp_stage = [c \in CpCallers |-> "none"]
    /\ cp_opcode = [c \in CpCallers |-> 0]
    /\ cp_response_q = << >>
    /\ cp_last = [task |-> 0, opcode |-> 0, frame |-> << >>,
                  outcome |-> [kind |-> "none", value |-> "none"]]
    /\ cp_indications = 0

\* The callers of the requests' specification, the opcode they send and
\* the frames they are answered with.
ReqCallers == {1, 2}
ReqOpcodes == {OpCode.GetVersion}
ReqFrames ==
    {<<OpCode.ResponseCode, OpCode.GetVersion, ResponseCode.OK>>,
     <<OpCode.ResponseCode, OpCode.GetVersion, ResponseCode.Busy>>,
     <<OpCode.GetVersionResponse, 6, 7>>}

\* Control-point requests on a session of either binding until and after
\* its disconnection.
ReqNext ==
    \/ \E binding \in {"bleak", "proxy"} : OpenSession(binding)
    \/ \E c \in ReqCallers : cp_binding # "none" /\ CpRequest(c)
    \/ \E c \in ReqCallers : CpResume(c)
    \/ \E c \in ReqCallers, opcode \in ReqOpcodes : BleakRequestRaw(c, opcode)
    \/ \E c \in ReqCallers : BleakWriteDone(c)
    \/ \E c \in ReqCallers : BleakWriteFail(c)
    \/ \E data \in ReqFrames : CpIndicate(data)
    \/ \E c \in ReqCallers : BleakGet(c)
    \/ \E c \in ReqCallers : BleakTimeout(c)
    \/ \E c \in ReqCallers, opcode \in ReqOpcodes : ProxyRequestRaw(c, opcode)
    \/ \E c \in ReqCallers, data \in ReqFrames : ProxyRpcResult(c, data)
    \/ \E c \in ReqCallers : ProxyRpcError(c)
    \/ AvssDisconnect

CpInit ==
    /\ cp_locked = FALSE
    /\ cp_waiters = << >>
    /\ cp_pc = [c \in CpCallers |-> "idle"]
    /\ cp_must_cancel = [c \in CpCallers |-> FALSE]
    /\ cp_written = << >>

CpNext ==
    \/ \E c \in CpCallers : CpRequest(c)
    \/ \E c \in CpCallers : CpResume(c)
    \/ \E c \in CpCallers : CpFinish(c)
    \/ \E c \in CpCallers : CpCancelWaiter(c)

(***************************************************************************)
(* Transceiver RPC: the outstanding-request table, the receiver, the       *)
(* keep-alive pinger and the task group of connect().                      *)
(*                                                                         *)
(* A future is named by the task whose running request created it; its     *)
(* state is rpc_fut of that task.  Once the request is over (returned,     *)
(* raised or cancelled) nothing but the table can still hold the future,   *)
(* and the table entry then carries the state the future was left in.      *)
(***************************************************************************)
\* Tasks that call request(): a user task and ping_task.
Users == {"u1"}
Pinger == "ping"
RpcTasks == Users \cup {Pinger}

\* The number of entries the table may hold before callers stop calling.
MaxPending == 3

\* Tokens the peer puts in Response messages (known, stale and unknown ones).
RespTokens == 0..MaxPending

\* A token chosen from the size of the table.
LowestUnusedByCount(request_token, table) == Cardinality(DOMAIN table)

\* A token chosen without looking at the table.
LowestUnusedBlind(request_token, table) == request_token

RECURSIVE LowestUnused(_, _)
\* while request_token in self._pending_responses: request_token += 1
LowestUnused(request_token, table) ==
    IF request_token \in DOMAIN table
    THEN LowestUnused(request_token + 1, table)
    ELSE request_token

\* self._pending_responses[request_token] = response
DictSet(table, key, value) ==
    [k \in DOMAIN table \cup {key} |-> IF k = key THEN value ELSE table[k]]

DictDel(table, key) == [k \in DOMAIN table \ {key} |-> table[k]]

\* A pop that falls back to the lowest entry when the token is unknown.
DictPopLax(table, key) ==
    IF key \in DOMAIN table
    THEN [value |-> table[key], table |-> DictDel(table, key)]
    ELSE IF DOMAIN table = {}
    THEN [value |-> "None", table |-> table]
    ELSE LET k == CHOOSE k \in DOMAIN table : \A j \in DOMAIN table : k <= j
         IN [value |-> table[k], table |-> DictDel(table, k)]

\* self._pending_responses.pop(request_token, None)
DictPop(table, key) ==
    IF key \in DOMAIN table
    THEN [value |-> table[key], table |-> DictDel(table, key)]
    ELSE [value |-> "None", table |-> table]

\* A cancellation that drops the request's entry.
TableOnCancelDrop(table, token) == DictDel(table, token)

\* What a cancelled _request_internal does to the table: nothing (there is
\* no handler around its awaits).
TableOnCancel(table, token) == table

\* The state of the future a table entry holds.
FutState(value) == IF value \in RpcTasks THEN rpc_fut[value] ELSE value

\* The request of task c is over: an entry still holding its future keeps
\* the future in the state it was left in.
Orphan(table, c, state) ==
    [k \in DOMAIN table |-> IF table[k] = c THEN state ELSE table[k]]

\* task.cancel() on a task suspended in _request_internal: the future it
\* awaits is cancelled with it; a task suspended in _send leaves the future
\* pending.
CancelledState(pc, state) ==
    IF pc = "awaiting" /\ state = "pending" THEN "cancelled" ELSE state

\* connect(): the transport is open, recv_task and ping_task are started.
RpcConnect ==
    /\ rpc_conn = "new"
    /\ rpc_conn' = "open"
    /\ recv_pc' = "reading"
    /\ rpc_pc' = [rpc_pc EXCEPT ![Pinger] = "idle"]
    /\ UNCHANGED <<eof_outstanding, pending_responses, rpc_fut, rpc_token, disconnected,
                   rpc_last, reportVars, cpVars, progVars, extVars>>

\* _request_internal up to its first suspension: the token is chosen, the
\* future registered and the frame handed to the transport.  For ping_task
\* this is the end of its sleep.
RpcRequest(c) ==
    /\ rpc_conn = "open"
    /\ rpc_pc[c] = "idle"
    /\ Cardinality(DOMAIN pending_responses) < MaxPending
    /\ LET request_token == LowestUnused(0, pending_responses)
       IN /\ pending_responses' = DictSet(pending_responses, request_token, c)
          /\ rpc_token' = [rpc_token EXCEPT ![c] = request_token]
    /\ rpc_fut' = [rpc_fut EXCEPT ![c] = "pending"]
    /\ rpc_pc' = [rpc_pc EXCEPT ![c] = "sending"]
    /\ UNCHANGED <<eof_outstanding, rpc_conn, recv_pc, disconnected, rpc_last, reportVars, cpVars, progVars, extVars>>

\* await self._send(...) returns: the task goes on to await its future.
RpcSendDone(c) ==
    /\ rpc_pc[c] = "sending"
    /\ rpc_pc' = [rpc_pc EXCEPT ![c] = "awaiting"]
    /\ UNCHANGED <<eof_outstanding, rpc_conn, pending_responses, rpc_fut, rpc_token,
                   recv_pc, disconnected, rpc_last, reportVars, cpVars, progVars, extVars>>

\* The task leaves _request_internal, its future left in `state`.
Leave(c, table, state) ==
    /\ pending_responses' = Orphan(table, c, state)
    /\ rpc_fut' = [rpc_fut EXCEPT ![c] = "none"]
    /\ rpc_token' = [rpc_token EXCEPT ![c] = 0]
    /\ eof_outstanding' = eof_outstanding \ {c}

\* The task ends with an exception; in ping_task that aborts the task group,
\* which cancels recv_task.
TaskRaises(c) ==
    /\ rpc_pc' = [rpc_pc EXCEPT ![c] = IF c = Pinger THEN "stopped" ELSE "idle"]
    /\ Leave(c, pending_responses, rpc_fut[c])
    /\ recv_pc' = IF c = Pinger /\ recv_pc = "reading" THEN "cancelled"
                  ELSE recv_pc

\* await self._send(...) raises a transport error.
RpcSendFail(c) ==
    /\ rpc_pc[c] = "sending"
    /\ TaskRaises(c)
    /\ UNCHANGED <<rpc_conn, disconnected, rpc_last, reportVars, cpVars, progVars, extVars>>

\* match await response: the caller gets the result, or raises RequestError.
RpcReturn(c) ==
    /\ rpc_pc[c] = "awaiting"
    /\ rpc_fut[c] \in {"result", "error"}
    /\ IF rpc_fut[c] = "error"
       THEN TaskRaises(c)
       ELSE /\ rpc_pc' = [rpc_pc EXCEPT ![c] = "idle"]
            /\ Leave(c, pending_responses, rpc_fut[c])
            /\ UNCHANGED recv_pc
    /\ UNCHANGED <<rpc_conn, disconnected, rpc_last, reportVars, cpVars, progVars, extVars>>

\* The user task suspended in _request_internal is cancelled.
RpcCancel(c) ==
    /\ c \in Users
    /\ rpc_pc[c] \in {"sending", "awaiting"}
    /\ Leave(c, TableOnCancel(pending_responses, rpc_token[c]),
             CancelledState(rpc_pc[c], rpc_fut[c]))
    /\ rpc_pc' = [rpc_pc EXCEPT ![c] = "idle"]
    /\ UNCHANGED <<rpc_conn, recv_pc, disconnected, rpc_last, reportVars, cpVars, progVars, extVars>>

\* recv_task reads [Response, request_token, error, result].
RecvResponse(request_token, error) ==
    /\ recv_pc = "reading"
    /\ LET popped == DictPop(pending_responses, request_token)
           response == popped.value
       IN /\ pending_responses' = popped.table
          /\ IF response # "None" /\ FutState(response) = "cancelled"
             THEN \* "Response to cancelled request received"
                  /\ rpc_last' = "cancelled"
                  /\ UNCHANGED <<rpc_fut, recv_pc>>
             ELSE IF response # "None"
             THEN \* response.set_result([error, result]), InvalidStateError
                  \* if the future is already done
                  IF FutState(response) = "pending"
                  THEN /\ rpc_fut' =
                            IF response \in RpcTasks
                            THEN [rpc_fut EXCEPT ![response] =
                                     IF error THEN "error" ELSE "result"]
                            ELSE rpc_fut
                       /\ rpc_last' = "completed"
                       /\ UNCHANGED recv_pc
                  ELSE /\ recv_pc' = "InvalidStateError"
                       /\ rpc_last' = "completed"
                       /\ UNCHANGED rpc_fut
             ELSE /\ rpc_last' = "unknown"
                  /\ UNCHANGED <<rpc_fut, recv_pc>>
    /\ UNCHANGED <<eof_outstanding, rpc_conn, rpc_pc, rpc_token, disconnected, reportVars, cpVars, progVars, extVars>>

\* The subscribers that enter a notifications() scope, once each.
NotifSubs == {1, 2}

\* A callable in self._on_notification_callbacks that raises when called.
RaisingCallbacks == {3}

\* The number of notifications in one behaviour.
MaxNotifications == 3

\* _callback of a notifications() scope, put first instead of last.
NotifCallbackFront(queue, n) == <<n>> \o queue

\* _callback: notifications.put_nowait(msg) on an unbounded queue.
NotifCallback(queue, n) == Append(queue, n)

\* for callback in self._on_notification_callbacks: callback(n)
\* There is no handler around the call: the first callback that raises ends
\* the loop, and the exception leaves recv_task.
RECURSIVE NotifDispatch(_, _, _)
NotifDispatch(callbacks, queues, n) ==
    IF callbacks = << >> THEN [queues |-> queues, raised |-> FALSE]
    ELSE IF Head(callbacks) \in RaisingCallbacks
    THEN [queues |-> queues, raised |-> TRUE]
    ELSE NotifDispatch(Tail(callbacks),
                       [queues EXCEPT ![Head(callbacks)] = NotifCallback(@, n)],
                       n)

\* An exception leaves recv_task: the task group aborts and cancels
\* ping_task at its suspension point.
RecvRaises(exception) ==
    /\ recv_pc' = exception
    /\ Leave(Pinger, pending_responses,
             CancelledState(rpc_pc[Pinger], rpc_fut[Pinger]))
    /\ rpc_pc' = [rpc_pc EXCEPT ![Pinger] = "stopped"]

\* recv_task reads [Notification, type, argument]: Notification.parse
\* unmarshals the argument (and raises if it does not fit the event class),
\* then every registered callback is called in list order.
RecvNotification(parses) ==
    /\ recv_pc = "reading"
    /\ notif_arrived < MaxNotifications
    /\ notif_arrived' = notif_arrived + 1
    /\ rpc_last' = "notification"
    /\ IF ~parses
       THEN /\ RecvRaises("UnmarshalError")
            /\ UNCHANGED notifications
       ELSE LET d == NotifDispatch(on_notification_callbacks, notifications,
                                   notif_arrived + 1)
            IN /\ notifications' = d.queues
               /\ IF d.raised
                  THEN RecvRaises("CallbackError")
                  ELSE UNCHANGED <<recv_pc, pending_responses, rpc_fut,
                                   rpc_pc, rpc_token, eof_outstanding>>
    /\ UNCHANGED <<rpc_conn, disconnected, on_notification_callbacks, notif_pc,
                   notif_yielded, reportVars, cpVars, progVars, moreVars, iterVars, reqVars>>

\* with client.notifications(): the callback of a new queue is appended.
NotificationsEnter(s) ==
    /\ notif_pc[s] = "idle"
    /\ notif_pc' = [notif_pc EXCEPT ![s] = "iterating"]
    /\ on_notification_callbacks' = Append(on_notification_callbacks, s)
    /\ UNCHANGED <<notifications, notif_yielded, notif_arrived,
                   reportVars, cpVars, rpcVars, progVars, moreVars, iterVars, reqVars>>

\* self._on_notification_callbacks.remove(callback) that removes nothing.
ListRemoveNothing(list, x) == list

\* self._on_notification_callbacks.remove(callback)
ListRemove(list, x) == SelectSeq(list, LAMBDA y : y # x)

\* _generator: the get task finds an item, asyncio.wait returns it in done.
NotifYield(s) ==
    /\ notif_pc[s] = "iterating"
    /\ notifications[s] # << >>
    /\ notif_yielded' = [notif_yielded EXCEPT ![s] = Append(@, Head(notifications[s]))]
    /\ notifications' = [notifications EXCEPT ![s] = Tail(@)]
    /\ UNCHANGED <<on_notification_callbacks, notif_pc, notif_arrived,
                   reportVars, cpVars, rpcVars, progVars, moreVars, iterVars, reqVars>>

\* _generator: the queue is empty and self._disconnected is done: the
\* generator raises TransceiverClientError, which leaves the with block.
NotifDisconnected(s) ==
    /\ notif_pc[s] = "iterating"
    /\ notifications[s] = << >>
    /\ disconnected
    /\ notif_pc' = [notif_pc EXCEPT ![s] = "TransceiverClientError"]
    /\ on_notification_callbacks' = ListRemove(on_notification_callbacks, s)
    /\ UNCHANGED <<notifications, notif_yielded, notif_arrived,
                   reportVars, cpVars, rpcVars, progVars, moreVars, iterVars, reqVars>>

\* The subscriber leaves its with block.
NotificationsExit(s) ==
    /\ notif_pc[s] = "iterating"
    /\ notif_pc' = [notif_pc EXCEPT ![s] = "closed"]
    /\ on_notification_callbacks' = ListRemove(on_notification_callbacks, s)
    /\ UNCHANGED <<notifications, notif_yielded, notif_arrived,
                   reportVars, cpVars, rpcVars, progVars, moreVars, iterVars, reqVars>>

\* A callable that raises is put on the list.
AppendCallback(h) ==
    /\ h \in RaisingCallbacks
    /\ \A i \in 1..Len(on_notification_callbacks) : on_notification_callbacks[i] # h
    /\ on_notification_callbacks' = Append(on_notification_callbacks, h)
    /\ UNCHANGED <<notifications, notif_pc, notif_yielded, notif_arrived,
                   reportVars, cpVars, rpcVars, progVars, moreVars, iterVars, reqVars>>

NotifInit ==
    /\ on_notification_callbacks = << >>
    /\ notifications = [s \in NotifSubs |-> << >>]
    /\ notif_pc = [s \in NotifSubs |-> "idle"]
    /\ notif_yielded = [s \in NotifSubs |-> << >>]
    /\ notif_arrived = 0

\* recv_task reads a message of another shape: ProtocolError ends it, the
\* task group aborts and cancels ping_task at its suspension point.
RecvMalformed ==
    /\ recv_pc = "reading"
    /\ RecvRaises("ProtocolError")
    /\ UNCHANGED <<rpc_conn, disconnected, rpc_last, reportVars, cpVars, progVars, extVars>>

\* transport.read() raises IncompleteReadError (the peer closed the
\* connection): recv_task leaves its loop.
RecvEof ==
    /\ recv_pc = "reading"
    /\ recv_pc' = "ended"
    /\ eof_outstanding' = {c \in RpcTasks : rpc_pc[c] = "awaiting" /\ rpc_fut[c] = "pending"}
    /\ UNCHANGED <<rpc_conn, pending_responses, rpc_fut, rpc_pc, rpc_token,
                   disconnected, rpc_last, reportVars, cpVars, progVars, extVars>>

\* conn_tasks: both tasks of the group are over; finally resolves
\* self._disconnected.
ConnTasksExit ==
    /\ recv_pc \in {"ended", "cancelled", "ProtocolError", "InvalidStateError",
                   "UnmarshalError", "CallbackError"}
    /\ rpc_pc[Pinger] = "stopped"
    /\ rpc_conn = "open"
    /\ ~disconnected
    /\ disconnected' = TRUE
    /\ set_result_calls' = set_result_calls + 1
    /\ UNCHANGED <<eof_outstanding, rpc_conn, pending_responses, rpc_fut, rpc_pc, rpc_token,
                   recv_pc, rpc_last, exit_pc, conn_cancel, transport_closed,
                   exitRest>>

\* A cancelled child of the task group that goes on as if it were not.
RecvOnCancelKeeps(pc) == pc

\* TaskGroup._abort: recv_task, suspended in transport.read(), is cancelled;
\* a recv_task that is over stays as it ended.
RecvOnCancel(pc) == IF pc = "reading" THEN "cancelled" ELSE pc

\* __aexit__ up to its await: self._connection_task.cancel(), which does
\* nothing to a task that is done, then transport.close() is entered.
Aexit ==
    /\ rpc_conn = "open"
    /\ exit_pc = "in"
    /\ exit_pc' = "closing"
    /\ conn_cancel' = IF disconnected THEN conn_cancel ELSE "requested"
    /\ UNCHANGED <<rpcVars, transport_closed, set_result_calls, exitRest>>

\* conn_tasks is resumed with CancelledError inside `async with TaskGroup`:
\* the group cancels the children that are not done, each at its
\* suspension point.
ConnCancelled ==
    /\ conn_cancel = "requested"
    /\ conn_cancel' = "done"
    /\ recv_pc' = RecvOnCancel(recv_pc)
    /\ IF rpc_pc[Pinger] # "stopped"
       THEN /\ Leave(Pinger, pending_responses,
                     CancelledState(rpc_pc[Pinger], rpc_fut[Pinger]))
            /\ rpc_pc' = [rpc_pc EXCEPT ![Pinger] = "stopped"]
       ELSE UNCHANGED <<pending_responses, rpc_fut, rpc_token, eof_outstanding,
                        rpc_pc>>
    /\ UNCHANGED <<rpc_conn, disconnected, rpc_last, exit_pc, transport_closed,
                   set_result_calls, exitRest>>

\* await self._transport.close() returns and __aexit__ with it.
AexitReturns ==
    /\ exit_pc = "closing"
    /\ exit_pc' = "left"
    /\ transport_closed' = TRUE
    /\ UNCHANGED <<rpcVars, conn_cancel, set_result_calls, exitRest>>

ExitInit ==
    /\ exit_pc = "in"
    /\ conn_cancel = "none"
    /\ transport_closed = FALSE
    /\ set_result_calls = 0

RpcInit ==
    /\ rpc_conn = "new"
    /\ pending_responses = << >>
    /\ rpc_fut = [c \in RpcTasks |-> "none"]
    /\ rpc_pc = [c \in RpcTasks |-> IF c = Pinger THEN "stopped" ELSE "idle"]
    /\ rpc_token = [c \in RpcTasks |-> 0]
    /\ recv_pc = "idle"
    /\ disconnected = FALSE
    /\ rpc_last = "none"
    /\ eof_outstanding = {}

RpcNext ==
    \/ RpcConnect
    \/ \E c \in RpcTasks : RpcRequest(c)
    \/ \E c \in RpcTasks : RpcSendDone(c)
    \/ \E c \in RpcTasks : RpcSendFail(c)
    \/ \E c \in RpcTasks : RpcReturn(c)
    \/ \E c \in Users : RpcCancel(c)
    \/ \E t \in RespTokens, e \in BOOLEAN : RecvResponse(t, e)
    \/ notif_arrived = 0 /\ RecvNotification(TRUE)   \* one, with no subscriber
    \/ RecvMalformed
    \/ RecvEof
    \/ ConnTasksExit

(***************************************************************************)
(* Firmware transfer: program_transfer under the session's program lock,   *)
(* rewound by the offsets _on_program_notify queues.                       *)
(***************************************************************************)
\* Tasks that call program_transfer on the session, once each.
ProgCallers == {1, 2}

\* 0xFFFFFFFF, the offset that aborts the transfer.  The model's integers are
\* 32-bit signed words: the all-ones word reads -1.
TRANSFER_ABORTED == -1

\* att_mtu arguments: chunks of two bytes.
AttMtus == {9}

\* Image lengths.
ImageLens == {0, 2, 3, 4}

\* The image of length n: its bytes are told apart by their position.
Image(n) == [i \in 1..n |-> 10 + i]

\* Offsets the node notifies: in the image, beyond it, and the abort value.
NackOffsets == {0, 2, 6, TRANSFER_ABORTED}

\* The number of program notifications in one behaviour.
MaxNacks == 2

\* The number of frames written in one behaviour.
MaxFrames == 4

\* A chunk size that leaves no room for the offset.
ChunkSizeNoOffset(att_mtu) == att_mtu - 3

\* chunk_size = (att_mtu - 3) - 4
ChunkSize(att_mtu) == (att_mtu - 3) - 4

\* binary[lo:hi] for 0 <= lo, hi
Slice(binary, lo, hi) ==
    LET stop == IF hi < Len(binary) THEN hi ELSE Len(binary)
    IN IF lo >= stop THEN << >> ELSE SubSeq(binary, lo + 1, stop)

\* struct.pack("<L", offset): four bytes, the least significant first.
PackL(offset) ==
    <<offset % 256, (offset \div 256) % 256, (offset \div 65536) % 256,
      (offset \div 16777216) % 256>>

\* req: the offset (packed "<L") followed by the chunk.
Frame(c, binary, offset, chunk_size) ==
    LET end == offset + chunk_size
        chunk == IF end < Len(binary) THEN Slice(binary, offset, end)
                 ELSE Slice(binary, offset, Len(binary))
    IN [task |-> c,
        offset |-> offset,
        data |-> chunk,
        req |-> PackL(offset) \o chunk]

\* offset = await asyncio.wait_for(self._program_nack_queue.get(), ...)
Adopt(offset, nack) == nack

ProgWaiterOf(c) ==
    LET i == CHOOSE i \in 1..Len(program_waiters) : program_waiters[i].task = c
    IN program_waiters[i]

\* The body of `async with self._program_lock` up to its first suspension:
\* a fresh queue, then the loop test.  An empty image skips the loop and the
\* lock is released at once.
ProgEnter(c, binary, waiters) ==
    /\ program_nack_queue' = Some(<< >>)
    /\ IF 0 < Len(binary)
       THEN /\ program_locked' = TRUE
            /\ program_waiters' = waiters
            /\ prog_pc' = [prog_pc EXCEPT ![c] = "get"]
       ELSE /\ program_locked' = FALSE
            /\ program_waiters' = WakeUpFirst(waiters)
            /\ prog_pc' = [prog_pc EXCEPT ![c] = "returned"]

\* program_transfer(binary, att_mtu) is called.
ProgramTransfer(c, binary, att_mtu) ==
    /\ prog_pc[c] = "idle"
    /\ prog_binary' = [prog_binary EXCEPT ![c] = binary]
    /\ prog_att_mtu' = [prog_att_mtu EXCEPT ![c] = att_mtu]
    /\ prog_chunk_size' = [prog_chunk_size EXCEPT ![c] = ChunkSize(att_mtu)]
    /\ prog_offset' = [prog_offset EXCEPT ![c] = 0]
    /\ IF LockIsFree(program_locked, program_waiters)
       THEN ProgEnter(c, binary, program_waiters)
       ELSE /\ program_waiters' =
                 Append(program_waiters, [task |-> c, fut |-> "pending"])
            /\ prog_pc' = [prog_pc EXCEPT ![c] = "locking"]
            /\ UNCHANGED <<program_locked, program_nack_queue>>
    /\ UNCHANGED <<prog_written, prog_nacks, reportVars, cpVars, rpcVars, extVars>>

\* The waiter the lock was handed to runs again and enters the body.
ProgLockResume(c) ==
    /\ prog_pc[c] = "locking"
    /\ ProgWaiterOf(c).fut = "done"
    /\ ProgEnter(c, prog_binary[c], RemoveWaiter(program_waiters, c))
    /\ UNCHANGED <<prog_binary, prog_chunk_size, prog_att_mtu, prog_offset, prog_written,
                   prog_nacks, reportVars, cpVars, rpcVars, extVars>>

\* The transfer leaves `async with`: the lock is released.
ProgRelease ==
    /\ program_locked' = FALSE
    /\ program_waiters' = WakeUpFirst(program_waiters)

\* _on_program_notify(data): the offset is queued if a queue exists.
OnProgramNotify(offset) ==
    /\ prog_nacks < MaxNacks
    /\ prog_nacks' = prog_nacks + 1
    /\ program_nack_queue' =
          IF program_nack_queue # None
          THEN Some(Append(program_nack_queue[1], offset))
          ELSE program_nack_queue
    /\ UNCHANGED <<program_locked, program_waiters, prog_pc, prog_binary,
                   prog_chunk_size, prog_att_mtu, prog_offset, prog_written, reportVars,
                   cpVars, rpcVars, extVars>>

\* wait_for(queue.get()) returns a queued offset: 0xFFFFFFFF raises
\* RuntimeError, any other offset is adopted and the task sleeps 100 ms.
ProgGetNack(c) ==
    /\ prog_pc[c] = "get"
    /\ program_nack_queue[1] # << >>
    /\ LET nack == Head(program_nack_queue[1])
       IN /\ program_nack_queue' = Some(Tail(program_nack_queue[1]))
          /\ prog_offset' = [prog_offset EXCEPT ![c] = Adopt(prog_offset[c], nack)]
          /\ IF nack = TRANSFER_ABORTED
             THEN /\ prog_pc' = [prog_pc EXCEPT ![c] = "aborted"]
                  /\ ProgRelease
             ELSE /\ prog_pc' = [prog_pc EXCEPT ![c] = "sleep"]
                  /\ UNCHANGED <<program_locked, program_waiters>>
    /\ UNCHANGED <<prog_binary, prog_chunk_size, prog_att_mtu, prog_written, prog_nacks,
                   reportVars, cpVars, rpcVars, extVars>>

\* await asyncio.sleep(0.1) is over: back to wait_for(queue.get()).
ProgSleepDone(c) ==
    /\ prog_pc[c] = "sleep"
    /\ prog_pc' = [prog_pc EXCEPT ![c] = "get"]
    /\ UNCHANGED <<program_locked, program_waiters, program_nack_queue,
                   prog_binary, prog_chunk_size, prog_att_mtu, prog_offset, prog_written,
                   prog_nacks, reportVars, cpVars, rpcVars, extVars>>

\* The 40 ms timer of wait_for fires with the queue empty; the task is
\* resumed by the event loop in a later step.
ProgTimerFires(c) ==
    /\ prog_pc[c] = "get"
    /\ program_nack_queue[1] = << >>
    /\ prog_pc' = [prog_pc EXCEPT ![c] = "timeout"]
    /\ UNCHANGED <<program_locked, program_waiters, program_nack_queue,
                   prog_binary, prog_chunk_size, prog_att_mtu, prog_offset, prog_written,
                   prog_nacks, reportVars, cpVars, rpcVars, extVars>>

\* The task resumes with TimeoutError (an offset queued since the timer
\* fired stays in the queue), builds the frame at `offset`, advances
\* `offset` and calls _program_write.
ProgWrite(c) ==
    /\ prog_pc[c] = "timeout"
    /\ Len(prog_written) < MaxFrames
    /\ prog_written' = Append(prog_written,
                              Frame(c, prog_binary[c], prog_offset[c],
                                    prog_chunk_size[c]))
    /\ prog_offset' = [prog_offset EXCEPT ![c] = prog_offset[c] + prog_chunk_size[c]]
    /\ prog_pc' = [prog_pc EXCEPT ![c] = "write"]
    /\ UNCHANGED <<program_locked, program_waiters, program_nack_queue,
                   prog_binary, prog_chunk_size, prog_att_mtu, prog_nacks, reportVars, cpVars,
                   rpcVars, extVars>>

\* _program_write returns: the loop test, then the next wait or the end of
\* the transfer.
ProgWriteDone(c) ==
    /\ prog_pc[c] = "write"
    /\ IF prog_offset[c] < Len(prog_binary[c])
       THEN /\ prog_pc' = [prog_pc EXCEPT ![c] = "get"]
            /\ UNCHANGED <<program_locked, program_waiters>>
       ELSE /\ prog_pc' = [prog_pc EXCEPT ![c] = "returned"]
            /\ ProgRelease
    /\ UNCHANGED <<program_nack_queue, prog_binary, prog_chunk_size, prog_att_mtu, prog_offset,
                   prog_written, prog_nacks, reportVars, cpVars, rpcVars, extVars>>

\* _program_write raises (the link is lost): the transfer fails.
ProgWriteFail(c) ==
    /\ prog_pc[c] = "write"
    /\ prog_pc' = [prog_pc EXCEPT ![c] = "failed"]
    /\ ProgRelease
    /\ UNCHANGED <<program_nack_queue, prog_binary, prog_chunk_size, prog_att_mtu, prog_offset,
                   prog_written, prog_nacks, reportVars, cpVars, rpcVars, extVars>>

ProgInit ==
    /\ program_locked = FALSE
    /\ program_waiters = << >>
    /\ program_nack_queue = None
    /\ prog_pc = [c \in ProgCallers |-> "idle"]
    /\ prog_binary = [c \in ProgCallers |-> << >>]
    /\ prog_chunk_size = [c \in ProgCallers |-> 0]
    /\ prog_att_mtu = [c \in ProgCallers |-> 0]
    /\ prog_offset = [c \in ProgCallers |-> 0]
    /\ prog_written = << >>
    /\ prog_nacks = 0

ProgNext ==
    \/ \E c \in ProgCallers, n \in ImageLens, att_mtu \in AttMtus :
          ProgramTransfer(c, Image(n), att_mtu)
    \/ \E c \in ProgCallers : ProgLockResume(c)
    \/ \E offset \in NackOffsets : OnProgramNotify(offset)
    \/ \E c \in ProgCallers : ProgGetNack(c)
    \/ \E c \in ProgCallers : ProgSleepDone(c)
    \/ \E c \in ProgCallers : ProgTimerFires(c)
    \/ \E c \in ProgCallers : ProgWrite(c)
    \/ \E c \in ProgCallers : ProgWriteDone(c)
    \/ \E c \in ProgCallers : ProgWriteFail(c)

(***************************************************************************)
(* ProxyAVSSClient: sessions of several nodes on one transceiver client    *)
(***************************************************************************)
\* BluetoothAddrLE(type, address)
BluetoothAddrLE(type_, address_) == [type |-> type_, address |-> address_]

\* An equality that looks at the address bytes only.
AddrEqBytesOnly(a, b) == a.address = b.address

\* The __eq__ the dataclass decorator generates for BluetoothAddrLE: the
\* tuples (type, address) of both sides are compared.
AddrEq(a, b) == <<a.type, a.address>> = <<b.type, b.address>>

\* The proxy sessions opened on the transceiver client.
ProxySessions == {1, 2}

\* self.address of each session: the two nodes have the same address bytes
\* and differ in the address type.
SessionAddress(s) == IF s = 1 THEN BluetoothAddrLE(0, 1) ELSE BluetoothAddrLE(1, 1)

\* The addresses notifications carry: the two sessions' nodes and a node
\* that has no session.
NodeAddresses == {BluetoothAddrLE(0, 1), BluetoothAddrLE(1, 1), BluetoothAddrLE(0, 2)}

\* The number of notifications the transceiver delivers in one behaviour.
MaxRouted == 2

\* The events the transceiver delivers: a report segment that starts a
\* record, a program NACK (the offset is the value's only word), a
\* disconnect event per address, and a connect event.
RoutedEvents ==
    {[cls |-> "AVSSReportNotifiedEvent", address |-> a, value |-> <<191, 5>>] :
        a \in NodeAddresses}
    \cup {[cls |-> "AVSSProgramNotifiedEvent", address |-> a, value |-> <<4>>] :
        a \in NodeAddresses}
    \cup {[cls |-> "NodeDisconnectedEvent", address |-> a, value |-> << >>] :
        a \in NodeAddresses}
    \cup {[cls |-> "NodeConnectedEvent", address |-> BluetoothAddrLE(0, 1),
            value |-> << >>]}

\* __aenter__: the loop task is created; it has not run yet.
ProxyEnter(s) ==
    /\ px_loop[s] = "new"
    /\ px_loop' = [px_loop EXCEPT ![s] = "created"]
    /\ UNCHANGED <<px_notifications, px_report_buf, px_report_next,
                   px_nack_queue, px_disconnected, px_seen, px_arrived,
                   reportVars, cpVars, rpcVars, progVars, notifVars, iterVars, reqVars,
                   lateVars>>

\* loop() starts: with self.transceiver.notifications() registers the
\* callback of a new queue.
ProxyLoopStart(s) ==
    /\ px_loop[s] = "created"
    /\ px_loop' = [px_loop EXCEPT ![s] = "running"]
    /\ px_notifications' = [px_notifications EXCEPT ![s] = << >>]
    /\ UNCHANGED <<px_report_buf, px_report_next,
                   px_nack_queue, px_disconnected, px_seen, px_arrived,
                   reportVars, cpVars, rpcVars, progVars, notifVars, iterVars, reqVars,
                   lateVars>>

\* recv_task dispatches one event: the callback of every loop inside its
\* with block puts it on that loop's queue.
ProxyDispatch(msg) ==
    /\ px_arrived < MaxRouted
    /\ px_arrived' = px_arrived + 1
    /\ px_notifications' =
          [s \in ProxySessions |->
              IF px_loop[s] \in {"running", "cancelling"}
              THEN NotifCallback(px_notifications[s], msg)
              ELSE px_notifications[s]]
    /\ UNCHANGED <<px_loop, px_report_buf, px_report_next,
                   px_nack_queue, px_disconnected, px_seen,
                   reportVars, cpVars, rpcVars, progVars, notifVars, iterVars, reqVars,
                   lateVars>>

\* The loop leaves its with block: the callback is removed and finally
\* resolves self._disconnected.
ProxyLoopEnds(s) ==
    /\ px_loop' = [px_loop EXCEPT ![s] = "done"]
    /\ px_disconnected' = [px_disconnected EXCEPT ![s] = TRUE]

\* One iteration of `async for msg in notifications` in loop().
ProxyLoopStep(s) ==
    /\ px_loop[s] = "running"
    /\ px_notifications[s] # << >>
    /\ LET msg == Head(px_notifications[s])
           mine == AddrEq(msg.address, SessionAddress(s))
       IN /\ px_notifications' = [px_notifications EXCEPT ![s] = Tail(@)]
          /\ px_seen' = [px_seen EXCEPT ![s] = Append(@, msg)]
          /\ IF msg.cls = "AVSSReportNotifiedEvent" /\ mine
             THEN LET r == Notify(px_report_buf[s], px_report_next[s], << >>,
                                  report_parse, reports, msg.value)
                  IN /\ px_report_buf' = [px_report_buf EXCEPT ![s] = r.buf]
                     /\ px_report_next' = [px_report_next EXCEPT ![s] = r.next]
                     /\ IF r.raised # "no"
                        THEN ProxyLoopEnds(s)
                        ELSE UNCHANGED <<px_loop, px_disconnected>>
                     /\ UNCHANGED px_nack_queue
             ELSE IF msg.cls = "AVSSProgramNotifiedEvent" /\ mine
             THEN /\ px_nack_queue' =
                        [px_nack_queue EXCEPT ![s] =
                            IF @ # None THEN Some(Append(@[1], msg.value[1])) ELSE @]
                  /\ UNCHANGED <<px_loop, px_disconnected, px_report_buf,
                                 px_report_next>>
             ELSE IF msg.cls = "NodeDisconnectedEvent" /\ mine
             THEN /\ ProxyLoopEnds(s)
                  /\ UNCHANGED <<px_report_buf, px_report_next, px_nack_queue>>
             ELSE UNCHANGED <<px_loop, px_disconnected, px_report_buf,
                              px_report_next, px_nack_queue>>
    /\ UNCHANGED <<px_arrived,
                   reportVars, cpVars, rpcVars, progVars, notifVars, iterVars, reqVars,
                   lateVars>>

\* __aexit__: self._loop_task.cancel() and nothing else. A loop that never
\* ran is cancelled before its first statement: CancelledError is thrown
\* into the coroutine that has not started, neither the with block nor
\* finally run. A running loop is woken with CancelledError later.
ProxyExit(s) ==
    /\ px_loop[s] \in {"created", "running"}
    /\ px_loop' = [px_loop EXCEPT ![s] =
                      IF @ = "running" THEN "cancelling" ELSE "done"]
    /\ UNCHANGED <<px_disconnected, px_notifications, px_report_buf, px_report_next,
                   px_nack_queue, px_seen, px_arrived,
                   reportVars, cpVars, rpcVars, progVars, notifVars, iterVars, reqVars,
                   lateVars>>

\* The cancelled loop runs: CancelledError is raised in the generator's
\* asyncio.wait and leaves the loop through finally and the with block.
ProxyCancelled(s) ==
    /\ px_loop[s] = "cancelling"
    /\ ProxyLoopEnds(s)
    /\ UNCHANGED <<px_notifications, px_report_buf, px_report_next,
                   px_nack_queue, px_seen, px_arrived,
                   reportVars, cpVars, rpcVars, progVars, notifVars, iterVars, reqVars,
                   lateVars>>

\* conn_tasks' finally: the transceiver client's _disconnected is resolved.
TransceiverDisconnected ==
    /\ ~px_transceiver_disconnected
    /\ px_transceiver_disconnected' = TRUE
    /\ UNCHANGED sessRest

\* _generator, resumed from asyncio.wait with the queue empty and
\* _disconnected done: TransceiverClientError leaves loop() through finally
\* and the with block.
ProxyLoopRaises(s) ==
    /\ px_loop[s] = "running"
    /\ px_transceiver_disconnected
    /\ px_notifications[s] = << >>
    /\ ProxyLoopEnds(s)
    /\ UNCHANGED <<px_notifications, px_report_buf, px_report_next,
                   px_nack_queue, px_seen, px_arrived,
                   reportVars, cpVars, rpcVars, progVars, notifVars, iterVars, reqVars,
                   lateVars>>

\* program_transfer, past the lock: self._program_nack_queue = asyncio.Queue()
ProxyProgramTransfer(s) ==
    /\ px_nack_queue[s] = None
    /\ px_nack_queue' = [px_nack_queue EXCEPT ![s] = Some(<< >>)]
    /\ UNCHANGED <<px_loop, px_notifications, px_report_buf, px_report_next,
                   px_disconnected, px_seen, px_arrived,
                   reportVars, cpVars, rpcVars, progVars, notifVars, iterVars, reqVars,
                   lateVars>>

ProxyInit ==
    /\ px_loop = [s \in ProxySessions |-> "new"]
    /\ px_notifications = [s \in ProxySessions |-> << >>]
    /\ px_report_buf = [s \in ProxySessions |-> None]
    /\ px_report_next = [s \in ProxySessions |-> -1]
    /\ px_nack_queue = [s \in ProxySessions |-> None]
    /\ px_disconnected = [s \in ProxySessions |-> FALSE]
    /\ px_seen = [s \in ProxySessions |-> << >>]
    /\ px_arrived = 0

(***************************************************************************)
(* anura.marshalling.unmarshal on dataclasses with scalar fields           *)
(***************************************************************************)
\* A Python scalar: its class and its numeric value (True is 1).
Py(t, v) == [t |-> t, v |-> v]

\* A decoded CBOR item handed to unmarshal: a dict with its items in
\* iteration order, or a list.
Dict(items) == [t |-> "dict", items |-> items]
List(items) == [t |-> "list", items |-> items]

\* One entry of dict.items().
Item(k, v) == [k |-> k, v |-> v]

\* isinstance(value, cls) for the scalar classes: bool is a subclass of int.
IsInstance(value, cls) ==
    \/ value.t = cls
    \/ cls = "int" /\ value.t = "bool"

\* name: type = cbor_field(cbor_key) / cbor_field(cbor_key, default=d)
CborField(name, type, cbor_key) ==
    [name |-> name, type |-> type, cbor_key |-> cbor_key, default |-> None]
CborFieldDefault(name, type, cbor_key, d) ==
    [name |-> name, type |-> type, cbor_key |-> cbor_key, default |-> Some(d)]

\* The record types unmarshalled: dataclasses.fields(cls) in declaration
\* order.
Classes ==
    {"FooBar", "BarFoo", "Foo", "ClassWithOptionalField",
     "ClassWithRequiredField", "TwoOptional", "RequiredThenOptional",
     "HealthReport"}

Fields(cls) ==
    CASE cls = "FooBar" ->
            <<CborField("foo", "int", 0), CborField("bar", "bool", 1)>>
      [] cls = "BarFoo" ->
            <<CborField("bar", "bool", 1), CborField("foo", "int", 0)>>
      [] cls = "Foo" -> << >>
      [] cls = "ClassWithOptionalField" ->
            <<CborFieldDefault("optional", "int", 0, Py("int", 100))>>
      [] cls = "ClassWithRequiredField" ->
            <<CborField("required", "int", 0)>>
      [] cls = "TwoOptional" ->
            <<CborFieldDefault("a", "int", 0, Py("int", 1)),
              CborFieldDefault("b", "int", 1, Py("int", 2))>>
      [] cls = "RequiredThenOptional" ->
            <<CborField("a", "int", 0), CborFieldDefault("b", "int", 1, Py("int", 2))>>
      [] cls = "HealthReport" ->
            <<CborField("uptime", "int", 0),
              CborField("reboot_count", "int", 1),
              CborField("reset_cause", "int", 2),
              CborField("temperature", "float", 3),
              CborField("battery_voltage", "int", 4),
              CborField("rssi", "int", 5),
              CborField("eh_voltage", "int", 6),
              CborField("clock_sync_skew", "float", 7),
              CborField("clock_sync_age", "int", 8),
              CborField("clock_sync_diff", "int", 9)>>

\* field_by_key.get(k, None): a later field replaces an earlier one with
\* the same key.
FieldByKey(cls, k) ==
    LET fs == SelectSeq(Fields(cls), LAMBDA f : f.cbor_key = k)
    IN IF fs = << >> THEN None ELSE Some(fs[Len(fs)])

\* unmarshal(cls, struct) for a scalar class: the last branch.
UnmarshalScalar(cls, struct) ==
    IF IsInstance(struct, cls)
    THEN [raised |-> "no", value |-> struct]
    ELSE [raised |-> "TypeError", value |-> struct]

RECURSIVE Attributes(_, _)
\* [unmarshal(field.type, v) for k, v in struct.items()
\*  if (field := field_by_key.get(k, None))]
\* The values come in the order of the dict's items; the first value that
\* does not decode raises.
Attributes(cls, items) ==
    IF items = << >> THEN [raised |-> "no", attributes |-> << >>]
    ELSE LET field == FieldByKey(cls, Head(items).k)
         IN IF field = None THEN Attributes(cls, Tail(items))
            ELSE LET u == UnmarshalScalar(field[1].type, Head(items).v)
                 IN IF u.raised # "no"
                    THEN [raised |-> u.raised, attributes |-> << >>]
                    ELSE LET rest == Attributes(cls, Tail(items))
                         IN IF rest.raised # "no" THEN rest
                            ELSE [raised |-> "no",
                                  attributes |-> <<u.value>> \o rest.attributes]

\* cls(*attributes): the __init__ the dataclass decorator generates takes
\* the fields in declaration order; a field past the arguments takes its
\* default, and one without default is a missing argument.
Construct(cls, attributes) ==
    LET fields == Fields(cls)
    IN IF Len(attributes) > Len(fields)
       THEN [raised |-> "TypeError", obj |-> << >>]
       ELSE IF \E i \in 1..Len(fields) :
                  i > Len(attributes) /\ fields[i].default = None
       THEN [raised |-> "TypeError", obj |-> << >>]
       ELSE [raised |-> "no",
             obj |-> [i \in 1..Len(fields) |->
                         IF i <= Len(attributes) THEN attributes[i]
                         ELSE fields[i].default[1]]]

\* unmarshal(cls, struct) for a dataclass: struct.items() exists on a dict
\* only.
Unmarshal(cls, struct) ==
    IF struct.t # "dict" THEN [raised |-> "AttributeError", obj |-> << >>]
    ELSE LET a == Attributes(cls, struct.items)
         IN IF a.raised # "no" THEN [raised |-> a.raised, obj |-> << >>]
            ELSE Construct(cls, a.attributes)

\* getattr(obj, name) on an instance of cls.
GetAttr(cls, obj, name) ==
    obj[CHOOSE i \in 1..Len(Fields(cls)) : Fields(cls)[i].name = name]

\* The keys and values of the dicts unmarshalled; no class declares key 7
\* except HealthReport.
MapKeys == {0, 1, 7}
MapValues == {Py("int", 100), Py("bool", 1)}

\* The largest number of items of those dicts.
MaxItems == 3

\* Every dict of at most n items with distinct keys, in every order.
RECURSIVE ItemSeqs(_)
ItemSeqs(n) ==
    IF n = 0 THEN {<< >>}
    ELSE LET shorter == ItemSeqs(n - 1)
         IN shorter \cup
            {Append(s, Item(k, v)) :
                s \in {x \in shorter : Len(x) = n - 1},
                k \in MapKeys, v \in MapValues}

DistinctKeys(items) ==
    \A i, j \in 1..Len(items) : items[i].k = items[j].k => i = j

\* A health report's dict with the keys 0..n-1, as the node encodes it.
HealthItems(n) ==
    [k \in 1..n |-> Item(k - 1, IF k - 1 \in {3, 7} THEN Py("float", 0)
                                                 ELSE Py("int", 0))]

Structs ==
    {Dict(s) : s \in {x \in ItemSeqs(MaxItems) : DistinctKeys(x)}}
    \cup {Dict(HealthItems(7)), Dict(HealthItems(10))}
    \cup {List(<< >>)}

\* unmarshal(cls, struct) is called.
UnmarshalInto(cls) ==
    /\ um_results[cls] = None
    /\ um_results' = [um_results EXCEPT ![cls] = Some(Unmarshal(cls, um_struct))]
    /\ UNCHANGED <<um_struct, reportVars, cpVars, rpcVars, progVars, notifVars,
                   iterVars, reqVars, proxyVars, coordVars, tailVars>>

MarshalInit ==
    /\ um_struct = Dict(<< >>)
    /\ um_results = [cls \in Classes |-> None]

(***************************************************************************)
(* AnuraSupervisor._node_task: the supervised task of one node             *)
(***************************************************************************)
\* The sessions one behaviour opens, the get_version failures in one
\* session and the reports streamed in one session.
MaxSessions == 3
MaxProbes == 2
MaxReports == 2

\* The handlers of the outer try, which re-raise instead of pausing.
ExceptHandlerReraise(exception) ==
    IF exception = "CancelledError" THEN "returned" ELSE "failed"

\* The handlers of the outer try: except asyncio.CancelledError: return;
\* except Exception: log and sleep 1 s.
ExceptHandler(exception) ==
    IF exception = "CancelledError" THEN "returned" ELSE "error_sleep"

\* async with ProxyAVSSClient(transceiver, node_addr) as node: a session is
\* opened and get_version is awaited.
OpenProxySession ==
    /\ nt_sessions < MaxSessions
    /\ nt_sessions' = nt_sessions + 1
    /\ nt_open' = TRUE
    /\ nt_probes' = 0
    /\ nt_reports' = 0
    /\ nt_pc' = "get_version"

\* The task starts running: the first iteration of the outer loop.
NodeTaskStart ==
    /\ nt_pc = "created"
    /\ OpenProxySession
    /\ UNCHANGED <<nt_version_session, nt_on_open, nt_cancel, nt_cause,
                   reportVars, cpVars, rpcVars, progVars, notifVars, iterVars,
                   reqVars, proxyVars, marshalVars,
                   tailVars>>

\* An exception leaves the body of the outer try: the with blocks are left
\* (the session is closed) and the matching handler runs.
LeaveTry(exception, cause) ==
    /\ nt_open' = FALSE
    /\ nt_pc' = ExceptHandler(exception)
    /\ nt_cause' = cause

\* version = await node.get_version() returns: break, then reports() is
\* entered and on_avss_open is awaited.
GetVersionReturns ==
    /\ nt_pc = "get_version"
    /\ nt_version_session' = nt_sessions
    /\ nt_on_open' = Append(nt_on_open, nt_sessions)
    /\ nt_pc' = "on_avss_open"
    /\ UNCHANGED <<nt_sessions, nt_open, nt_probes, nt_reports, nt_cancel,
                   nt_cause, reportVars, cpVars, rpcVars, progVars, notifVars,
                   iterVars, reqVars, proxyVars, marshalVars,
                   tailVars>>

\* get_version raises an Exception: the inner handler sleeps 1 s.
GetVersionRaises ==
    /\ nt_pc = "get_version"
    /\ nt_probes < MaxProbes
    /\ nt_probes' = nt_probes + 1
    /\ nt_pc' = "probe_sleep"
    /\ nt_cause' = "get_version"
    /\ UNCHANGED <<nt_sessions, nt_open, nt_version_session, nt_on_open,
                   nt_reports, nt_cancel, reportVars, cpVars, rpcVars, progVars,
                   notifVars, iterVars, reqVars, proxyVars, marshalVars,
                   tailVars>>

\* The inner sleep is over: get_version is awaited again on the same
\* session.
ProbeSleepDone ==
    /\ nt_pc = "probe_sleep"
    /\ nt_pc' = "get_version"
    /\ UNCHANGED <<nt_sessions, nt_open, nt_probes, nt_version_session,
                   nt_on_open, nt_reports, nt_cancel, nt_cause,
                   reportVars, cpVars, rpcVars, progVars, notifVars, iterVars,
                   reqVars, proxyVars, marshalVars,
                   tailVars>>

\* on_avss_open returns: the task waits for the next report.
OnOpenReturns ==
    /\ nt_pc = "on_avss_open"
    /\ nt_pc' = "reports"
    /\ UNCHANGED <<nt_sessions, nt_open, nt_probes, nt_version_session,
                   nt_on_open, nt_reports, nt_cancel, nt_cause,
                   reportVars, cpVars, rpcVars, progVars, notifVars, iterVars,
                   reqVars, proxyVars, marshalVars,
                   tailVars>>

\* async for report in reports: the generator yields a report and
\* on_avss_report is awaited.
NextReport ==
    /\ nt_pc = "reports"
    /\ nt_reports < MaxReports
    /\ nt_reports' = nt_reports + 1
    /\ nt_pc' = "on_avss_report"
    /\ UNCHANGED <<nt_sessions, nt_open, nt_probes, nt_version_session,
                   nt_on_open, nt_cancel, nt_cause,
                   reportVars, cpVars, rpcVars, progVars, notifVars, iterVars,
                   reqVars, proxyVars, marshalVars,
                   tailVars>>

\* on_avss_report returns: the task waits for the next report.
OnReportReturns ==
    /\ nt_pc = "on_avss_report"
    /\ nt_pc' = "reports"
    /\ UNCHANGED <<nt_sessions, nt_open, nt_probes, nt_version_session,
                   nt_on_open, nt_reports, nt_cancel, nt_cause,
                   reportVars, cpVars, rpcVars, progVars, notifVars, iterVars,
                   reqVars, proxyVars, marshalVars,
                   tailVars>>

\* An Exception is raised where the body of the outer try waits outside the
\* inner try: in on_avss_open, in the reports generator (DisconnectedError)
\* or in on_avss_report.
BodyRaises ==
    /\ nt_pc \in {"on_avss_open", "reports", "on_avss_report"}
    /\ LeaveTry("Exception", nt_pc)
    /\ UNCHANGED <<nt_sessions, nt_probes, nt_version_session, nt_on_open,
                   nt_reports, nt_cancel, reportVars, cpVars, rpcVars, progVars,
                   notifVars, iterVars, reqVars, proxyVars, marshalVars,
                   tailVars>>

\* The sleep of the outer handler is over: the loop opens a new session.
ErrorSleepDone ==
    /\ nt_pc = "error_sleep"
    /\ OpenProxySession
    /\ UNCHANGED <<nt_version_session, nt_on_open, nt_cancel, nt_cause,
                   reportVars, cpVars, rpcVars, progVars, notifVars, iterVars,
                   reqVars, proxyVars, marshalVars,
                   tailVars>>

\* The task is cancelled (by its task group). CancelledError is raised at
\* the await the task is suspended in: inside the outer try it is handled by
\* return (the inner `except Exception` does not match it); in the sleep of
\* the outer handler, or before the task has run, it ends the task.
NodeCancel ==
    /\ nt_pc \in {"created", "get_version", "probe_sleep", "on_avss_open",
                  "reports", "on_avss_report", "error_sleep"}
    /\ nt_cancel' = TRUE
    /\ IF nt_pc \in {"created", "error_sleep"}
       THEN /\ nt_pc' = "cancelled"
            /\ UNCHANGED <<nt_open, nt_cause>>
       ELSE LeaveTry("CancelledError", nt_cause)
    /\ UNCHANGED <<nt_sessions, nt_probes, nt_version_session, nt_on_open,
                   nt_reports, reportVars, cpVars, rpcVars, progVars,
                   notifVars, iterVars, reqVars, proxyVars, marshalVars,
                   tailVars>>

CoordInit ==
    /\ nt_pc = "created"
    /\ nt_sessions = 0
    /\ nt_open = FALSE
    /\ nt_probes = 0
    /\ nt_version_session = 0
    /\ nt_on_open = << >>
    /\ nt_reports = 0
    /\ nt_cancel = FALSE
    /\ nt_cause = "none"

(***************************************************************************)
(* TransceiverClient: method discovery and the method id of a request      *)
(***************************************************************************)
\* The method names requested and the tables a transceiver may serve for
\* ".well-known/methods": name -> integer id.
MethodNames == {"ping", "reboot", ".well-known/methods"}
MethodTables ==
    {{},
     {[name |-> "ping", id |-> 10]},
     {[name |-> "ping", id |-> 10], [name |-> "reboot", id |-> 11]},
     {[name |-> "ping", id |-> 10], [name |-> ".well-known/methods", id |-> 0]}}

\* The number of requests sent in one behaviour.
MaxSent == 3

\* A method field that is always the name.
MethodIdByName(known, method) == [kind |-> "str", id |-> 0, name |-> method]

\* method_id = method; if method in self._known_methods:
\*     method_id = self._known_methods[method]
\* The method field of the request frame: an integer or a string.
MethodId(known, method) ==
    IF \E e \in known : e.name = method
    THEN [kind |-> "int", id |-> (CHOOSE e \in known : e.name = method).id,
          name |-> ""]
    ELSE [kind |-> "str", id |-> 0, name |-> method]

\* _request_internal builds and sends the frame of a request for `method`.
SendRequest(method) ==
    /\ Len(rq_sent) < MaxSent
    /\ rq_sent' = Append(rq_sent, [method |-> method,
                                   method_id |-> MethodId(known_methods, method),
                                   known |-> known_methods,
                                   connect |-> conn_pc])

\* connect(): the connection is opened, conn_tasks is started and
\* discover_methods sends its request.
Connect ==
    /\ conn_pc = "new"
    /\ conn_pc' = "discover_methods"
    /\ SendRequest(".well-known/methods")
    /\ UNCHANGED <<known_methods, discovered, discRest>>

\* The response of the discovery request arrives: the result becomes
\* self._known_methods; the connect() that awaited it returns.
DiscoverReturns(table) ==
    /\ conn_pc \in {"discover_methods", "rediscover"}
    /\ known_methods' = table
    /\ discovered' = TRUE
    /\ conn_pc' = "connected"
    /\ UNCHANGED <<rq_sent, discRest>>

\* The response carries an error: request raises RequestError, and so does
\* the connect() that awaited it.
DiscoverRaises ==
    /\ conn_pc \in {"discover_methods", "rediscover"}
    /\ conn_pc' = IF conn_pc = "discover_methods" THEN "connect_raised"
                  ELSE "connected"
    /\ UNCHANGED <<known_methods, discovered, rq_sent, discRest>>

\* ping_task, or a caller once connect() has returned, requests a method.
Request(method) ==
    /\ \/ conn_pc \in {"discover_methods", "rediscover"} /\ method = "ping"
       \/ conn_pc = "connected" /\ method # ".well-known/methods"
    /\ SendRequest(method)
    /\ UNCHANGED <<known_methods, discovered, conn_pc, discRest>>

\* A caller calls discover_methods() on the connected client.
DiscoverMethods ==
    /\ conn_pc = "connected"
    /\ conn_pc' = "rediscover"
    /\ SendRequest(".well-known/methods")
    /\ UNCHANGED <<known_methods, discovered, discRest>>

DiscInit ==
    /\ known_methods = {}
    /\ conn_pc = "new"
    /\ discovered = FALSE
    /\ rq_sent = << >>

SessInit == px_transceiver_disconnected = FALSE

(***************************************************************************)
(* BleakAVSSClient: the one-slot response queue of the control point       *)
(***************************************************************************)
\* The number of requests made in one behaviour.
MaxSlotRequests == 3

\* What slot_results holds for a request that raised TimeoutError.
TimedOut == 0

\* while not self._cp_response_q.empty(): await self._cp_response_q.get()
\* get() on a queue that is not empty returns without suspending.
Flush(queue) == << >>

\* _request_raw up to its first suspension (the control-point lock admits
\* one request at a time): the queue is flushed, write_gatt_char is called.
SlotRequestRaw ==
    /\ slot_stage = "idle"
    /\ slot_request < MaxSlotRequests
    /\ slot_request' = slot_request + 1
    /\ slot_q' = Flush(slot_q)
    /\ slot_stage' = "write"
    /\ UNCHANGED <<slot_node, slot_results, slot_indicate, slotRest>>

\* write_gatt_char returns: the node has the request; wait_for(get) starts.
SlotWriteDone ==
    /\ slot_stage = "write"
    /\ slot_stage' = "get"
    /\ slot_node' = slot_node \cup {slot_request}
    /\ UNCHANGED <<slot_q, slot_request, slot_results, slot_indicate, slotRest>>

\* The node's response to request k is indicated: _cp_indicate calls
\* put_nowait on the queue of maxsize 1, which raises QueueFull when the
\* slot is taken.
SlotCpIndicate(k) ==
    /\ k \in slot_node
    /\ slot_node' = slot_node \ {k}
    /\ IF Len(slot_q) >= 1
       THEN /\ slot_indicate' = "QueueFull"
            /\ UNCHANGED slot_q
       ELSE /\ slot_indicate' = "returned"
            /\ slot_q' = Append(slot_q, k)
    /\ UNCHANGED <<slot_stage, slot_request, slot_results, slotRest>>

\* wait_for(self._cp_response_q.get()) returns the queued response.
SlotGet ==
    /\ slot_stage = "get"
    /\ slot_q # << >>
    /\ slot_results' = Append(slot_results, Head(slot_q))
    /\ slot_q' = Tail(slot_q)
    /\ slot_stage' = "idle"
    /\ UNCHANGED <<slot_request, slot_node, slot_indicate, slotRest>>

\* The timer of wait_for fires with nothing queued: TimeoutError.
SlotTimeout ==
    /\ slot_stage = "get"
    /\ slot_q = << >>
    /\ slot_results' = Append(slot_results, TimedOut)
    /\ slot_stage' = "idle"
    /\ UNCHANGED <<slot_q, slot_request, slot_node, slot_indicate, slotRest>>

SlotInit ==
    /\ slot_q = << >>
    /\ slot_stage = "idle"
    /\ slot_request = 0
    /\ slot_node = {}
    /\ slot_results = << >>
    /\ slot_indicate = "none"

(***************************************************************************)
(* TransceiverClient.find_avss_node_by_address                             *)
(***************************************************************************)
\* addr, the argument of the call.
FindAddr == BluetoothAddrLE(0, 1)

\* The number of events dispatched in one behaviour.
MaxFindEvents == 2

\* The events recv_task dispatches: node_service_discovered and
\* node_connected of addr and of the other nodes.
FindEvents ==
    {[cls |-> c, address |-> a] :
        c \in {"NodeServiceDiscoveredEvent", "NodeConnectedEvent"},
        a \in NodeAddresses}

\* A test that accepts the event of any node.
IsDiscoveredAny(msg, addr) == msg.cls = "NodeServiceDiscoveredEvent"

\* isinstance(msg, models.NodeServiceDiscoveredEvent) and msg.address == addr
IsDiscovered(msg, addr) ==
    msg.cls = "NodeServiceDiscoveredEvent" /\ AddrEq(msg.address, addr)

\* The call leaves its with block: the callback is removed.
FindReturns(result) ==
    /\ find_pc' = "returned"
    /\ find_result' = result
    /\ find_notifications' = None

\* find_avss_node_by_address(addr) up to its first suspension: the scope of
\* notifications() is entered, then get_assigned_nodes is requested.
FindAvssNodeByAddress ==
    /\ find_pc = "idle"
    /\ find_pc' = "get_assigned_nodes"
    /\ find_notifications' = Some(<< >>)
    /\ UNCHANGED <<find_result, find_answers, find_arrived, find_discovered,
                   findRest>>

\* get_assigned_nodes returns: is_assigned is computed from its nodes.
GetAssignedNodesReturns(is_assigned) ==
    /\ find_pc = "get_assigned_nodes"
    /\ find_answers' = [find_answers EXCEPT !.is_assigned =
                            IF is_assigned THEN "yes" ELSE "no"]
    /\ IF ~is_assigned
       THEN FindReturns("None")
       ELSE /\ find_pc' = "get_connected_nodes"
            /\ UNCHANGED <<find_result, find_notifications>>
    /\ UNCHANGED <<find_arrived, find_discovered, findRest>>

\* get_connected_nodes returns: is_connected is computed from its nodes.
GetConnectedNodesReturns(is_connected) ==
    /\ find_pc = "get_connected_nodes"
    /\ find_answers' = [find_answers EXCEPT !.is_connected =
                            IF is_connected THEN "yes" ELSE "no"]
    /\ IF is_connected
       THEN FindReturns("addr")
       ELSE /\ find_pc' = "iterating"
            /\ UNCHANGED <<find_result, find_notifications>>
    /\ UNCHANGED <<find_arrived, find_discovered, findRest>>

\* recv_task dispatches an event: the callback of the call's scope, if the
\* call is inside it, puts the event on the queue.
FindDispatch(msg) ==
    /\ ~px_transceiver_disconnected
    /\ find_arrived < MaxFindEvents
    /\ find_arrived' = find_arrived + 1
    /\ find_notifications' =
          IF find_notifications # None
          THEN Some(NotifCallback(find_notifications[1], msg))
          ELSE find_notifications
    /\ find_discovered' =
          (find_discovered
             \/ (find_pc \notin {"idle", "returned"}
                   /\ msg.cls = "NodeServiceDiscoveredEvent"
                   /\ msg.address = FindAddr))
    /\ UNCHANGED <<find_pc, find_result, find_answers, findRest>>

\* One iteration of `async for msg in notifications`.
FindStep ==
    /\ find_pc = "iterating"
    /\ find_notifications[1] # << >>
    /\ IF IsDiscovered(Head(find_notifications[1]), FindAddr)
       THEN FindReturns("addr")
       ELSE /\ find_notifications' = Some(Tail(find_notifications[1]))
            /\ UNCHANGED <<find_pc, find_result>>
    /\ UNCHANGED <<find_answers, find_arrived, find_discovered, findRest>>

\* _generator with the queue empty and _disconnected done:
\* TransceiverClientError leaves the call.
FindRaises ==
    /\ find_pc = "iterating"
    /\ find_notifications[1] = << >>
    /\ px_transceiver_disconnected
    /\ FindReturns("TransceiverClientError")
    /\ UNCHANGED <<find_answers, find_arrived, find_discovered, findRest>>

FindInit ==
    /\ find_pc = "idle"
    /\ find_notifications = None
    /\ find_result = "none"
    /\ find_answers = [is_assigned |-> "none", is_connected |-> "none"]
    /\ find_arrived = 0
    /\ find_discovered = FALSE

(***************************************************************************)
(* AnuraSupervisor._transceiver_task: one transceiver and its node tasks   *)
(***************************************************************************)
\* The nodes of the configuration.
SuperNodes == {1, 2}

\* The sets of nodes a configuration gives to the transceiver: none, or both.
NodeConfigs == {{}, SuperNodes}

\* The number of connections established in one behaviour.
MaxConnects == 3

\* run_async creates the _transceiver_task of a transceiver whose nodes, by
\* self.config, are `nodes`.
TransceiverTask(nodes) ==
    /\ tt_pc = "new"
    /\ tt_pc' = "connect"
    /\ tt_nodes' = nodes
    /\ UNCHANGED <<tt_transceiver, tt_connects, tt_node, superRest>>

\* _transceiver_connect returns a connected TransceiverClient; the task
\* group is entered and on_transceiver_connect is awaited.
TransceiverConnect ==
    /\ tt_pc = "connect"
    /\ tt_connects < MaxConnects
    /\ tt_connects' = tt_connects + 1
    /\ tt_transceiver' = "connected"
    /\ tt_pc' = "setup"
    /\ UNCHANGED <<tt_nodes, tt_node, superRest>>

\* The connection of the current TransceiverClient is lost.
TransceiverLost ==
    /\ tt_transceiver = "connected"
    /\ tt_transceiver' = "lost"
    /\ UNCHANGED <<tt_nodes, tt_pc, tt_connects, tt_node, superRest>>

\* set_assigned_nodes returns; one _node_task per node is created and the
\* body of the task group ends: __aexit__ awaits the node tasks.
SpawnNodeTasks ==
    /\ tt_pc = "setup"
    /\ tt_transceiver = "connected"
    /\ tt_node' = [n \in SuperNodes |->
                      IF n \in tt_nodes THEN "get_version" ELSE "none"]
    /\ tt_pc' = "group"
    /\ UNCHANGED <<tt_nodes, tt_transceiver, tt_connects, superRest>>

\* on_transceiver_connect or set_assigned_nodes raises: the task group is
\* left with no node task, `except Exception` logs and sleeps 1 s.
SetupRaises ==
    /\ tt_pc = "setup"
    /\ tt_pc' = "sleep"
    /\ UNCHANGED <<tt_nodes, tt_transceiver, tt_connects, tt_node, superRest>>

\* The sleep of the handler is over: the next iteration of `while True`
\* calls _transceiver_connect, which makes a new TransceiverClient.
TransceiverSleepDone ==
    /\ tt_pc = "sleep"
    /\ tt_pc' = "connect"
    /\ UNCHANGED <<tt_nodes, tt_transceiver, tt_connects, tt_node, superRest>>

\* A task group whose tasks are all done is left.
GroupIsOver(node) == \A n \in SuperNodes : node[n] = "none"

\* The task group's __aexit__ returns once every node task is done; the
\* next iteration of `while True` connects again.
TaskGroupExit ==
    /\ tt_pc = "group"
    /\ GroupIsOver(tt_node)
    /\ tt_pc' = "connect"
    /\ UNCHANGED <<tt_nodes, tt_transceiver, tt_connects, tt_node, superRest>>

\* _node_task: get_version returns on a session of the live connection;
\* the reports are iterated.
NodeGetVersionReturns(n) ==
    /\ tt_node[n] = "get_version"
    /\ tt_transceiver = "connected"
    /\ tt_node' = [tt_node EXCEPT ![n] = "reports"]
    /\ UNCHANGED <<tt_nodes, tt_pc, tt_transceiver, tt_connects, superRest>>

\* _node_task: get_version raises (an error response, or the send on the
\* lost connection); `except Exception` sleeps 1 s.
NodeGetVersionRaises(n) ==
    /\ tt_node[n] = "get_version"
    /\ tt_node' = [tt_node EXCEPT ![n] = "probe_sleep"]
    /\ UNCHANGED <<tt_nodes, tt_pc, tt_transceiver, tt_connects, superRest>>

\* _node_task: the sleep of the probe loop is over; get_version is called
\* again on the same session.
NodeProbeSleepDone(n) ==
    /\ tt_node[n] = "probe_sleep"
    /\ tt_node' = [tt_node EXCEPT ![n] = "get_version"]
    /\ UNCHANGED <<tt_nodes, tt_pc, tt_transceiver, tt_connects, superRest>>

\* _node_task: the body raises (DisconnectedError of the reports iterator
\* once the session's loop has ended, an exception of a hook); the outer
\* `except Exception` logs and sleeps 1 s.
NodeBodyRaises(n) ==
    /\ tt_node[n] = "reports"
    /\ tt_node' = [tt_node EXCEPT ![n] = "error_sleep"]
    /\ UNCHANGED <<tt_nodes, tt_pc, tt_transceiver, tt_connects, superRest>>

\* _node_task: the sleep of the handler is over; the next iteration of the
\* outer `while True` opens a new ProxyAVSSClient on the same `transceiver`.
NodeErrorSleepDone(n) ==
    /\ tt_node[n] = "error_sleep"
    /\ tt_node' = [tt_node EXCEPT ![n] = "get_version"]
    /\ UNCHANGED <<tt_nodes, tt_pc, tt_transceiver, tt_connects, superRest>>

SuperInit ==
    /\ tt_nodes = {}
    /\ tt_pc = "new"
    /\ tt_transceiver = "none"
    /\ tt_connects = 0
    /\ tt_node = [n \in SuperNodes |-> "none"]

TailInit == DiscInit /\ SessInit /\ ExitInit /\ SlotInit /\ FindInit /\ SuperInit

MoreInit == ProxyInit /\ MarshalInit /\ CoordInit /\ TailInit

ReportInit ==
    /\ report_buf = None
    /\ report_next_segment_number = -1      \* not set before the first FIRST
    /\ on_report_callbacks = << >>
    /\ report_parse = [s \in Subs |-> FALSE]
    /\ reports = [s \in Subs |-> << >>]
    /\ wire = << >>
    /\ raised = "no"
    /\ report_at = [s \in Subs |-> << >>]

Init ==
    /\ ReportInit /\ CpInit /\ RpcInit /\ ProgInit /\ NotifInit /\ IterInit
    /\ ReqInit /\ MoreInit

\* The assembler under every segment sequence, subscribers entering before
\* the traffic starts.
ReportNext ==
    \/ \E segment \in Segments : OnReportNotify(segment)
    \/ \E s \in Subs : wire = << >> /\ ReportsEnter(s, FALSE)

ReportSpec == Init /\ [][ReportNext]_vars

\* The subscribers that enter reports(parse=True) where both kinds subscribe.
ParseSubs == {2}

\* The report traffic of the delivery specification: the segments numbered
\* 63 and 0 under every flag combination (records of type 5 with the body
\* 6 7, with no body and with a longer one, records of type 6), and a
\* one-segment record of type 8, which has no class.
DeliverSegments ==
    {<<f + n>> \o PayloadOf(n) : f \in SegFlags, n \in {63, 0}}
    \cup {<<SEGMENT_FIRST + SEGMENT_LAST + 1>> \o PayloadOf(1)}

\* The assembler with a raw and a parsing subscriber, in either order.
DeliverNext ==
    \/ \E segment \in DeliverSegments : OnReportNotify(segment)
    \/ \E s \in Subs : wire = << >> /\ ReportsEnter(s, s \in ParseSubs)

DeliverSpec == Init /\ [][DeliverNext]_vars

\* The report traffic of the iterators' specification: a one-segment record
\* (type 5), the two segments of a record (type 5, body 6 7), and a segment
\* out of sequence.
IterSegments ==
    {<<SEGMENT_FIRST + SEGMENT_LAST + 63, 5>>, <<SEGMENT_FIRST + 63, 5>>,
     <<SEGMENT_LAST + 0, 6, 7>>, <<1, 8>>}

\* Iterators over the reports of a session until it is disconnected; each
\* subscriber enters one scope, and no segment is notified once the
\* disconnection is reported.
IterNext ==
    \/ \E segment \in IterSegments : ~avss_disconnected /\ OnReportNotify(segment)
    \/ \E s \in Subs : report_end[s] = "none" /\ ReportsEnter(s, s \in ParseSubs)
    \/ \E s \in Subs : ReportAnext(s)
    \/ \E s \in Subs : ReportYield(s)
    \/ \E s \in Subs : ReportDisconnected(s)
    \/ \E s \in Subs : ReportsExit(s)
    \/ AvssDisconnect

IterSpec == Init /\ [][IterNext]_vars

\* The event loop resumes a generator whose wait is over.
IterFairness ==
    \A s \in Subs : WF_vars(ReportYield(s)) /\ WF_vars(ReportDisconnected(s))

IterFairSpec == IterSpec /\ IterFairness

CpSpec == Init /\ [][CpNext]_vars

ReqSpec == Init /\ [][ReqNext]_vars

\* The event loop resumes a task that can run and fires wait_for's timer;
\* nothing obliges the node or the transceiver to answer.
ReqFairness ==
    \A c \in ReqCallers :
        /\ WF_vars(CpResume(c))
        /\ WF_vars(\E opcode \in ReqOpcodes : BleakRequestRaw(c, opcode))
        /\ WF_vars(\E opcode \in ReqOpcodes : ProxyRequestRaw(c, opcode))
        /\ WF_vars(BleakWriteDone(c) \/ BleakWriteFail(c))
        /\ WF_vars(BleakGet(c))
        /\ WF_vars(BleakTimeout(c))

ReqFairSpec == ReqSpec /\ ReqFairness

\* A request of caller 1 on a direct-BLE session, suspended in
\* wait_for(get) with its response in the slot: every request opcode with
\* every response frame.
OutcomeInit ==
    /\ ReportInit /\ RpcInit /\ ProgInit /\ NotifInit /\ IterInit /\ MoreInit
    /\ cp_locked = TRUE
    /\ cp_waiters = << >>
    /\ cp_pc = [c \in CpCallers |-> IF c = 1 THEN "inflight" ELSE "idle"]
    /\ cp_must_cancel = [c \in CpCallers |-> FALSE]
    /\ cp_written = <<1>>
    /\ cp_binding = "bleak"
    /\ cp_stage = [c \in CpCallers |-> IF c = 1 THEN "get" ELSE "none"]
    /\ \E opcode \in RequestOpcodes :
          cp_opcode = [c \in CpCallers |-> IF c = 1 THEN opcode ELSE 0]
    /\ \E data \in ResponseFrames : cp_response_q = <<data>>
    /\ cp_last = [task |-> 0, opcode |-> 0, frame |-> << >>,
                  outcome |-> [kind |-> "none", value |-> "none"]]
    /\ cp_indications = 1

\* _request_impl takes the frame and decodes it.
OutcomeNext == BleakGet(1)

OutcomeSpec == OutcomeInit /\ [][OutcomeNext]_vars

RpcSpec == Init /\ [][RpcNext]_vars

ProgSpec == Init /\ [][ProgNext]_vars

\* att_mtu arguments and image lengths of a transfer the node never NACKs:
\* chunks of one, two and three bytes.
PlainMtus == {8, 9, 10}
PlainLens == 0..6

\* One transfer on a link that takes every write, to a node that sends no
\* program notification; the images fit in MaxFrames frames.
PlainNext ==
    \/ \E n \in PlainLens, att_mtu \in PlainMtus :
          /\ n <= MaxFrames * ChunkSize(att_mtu)
          /\ ProgramTransfer(1, Image(n), att_mtu)
    \/ ProgTimerFires(1)
    \/ ProgWrite(1)
    \/ ProgWriteDone(1)

PlainSpec == Init /\ [][PlainNext]_vars

\* The 40 ms timer fires, the event loop resumes the task, and the link
\* completes a write.
PlainFairness ==
    /\ WF_vars(ProgTimerFires(1))
    /\ WF_vars(ProgWrite(1))
    /\ WF_vars(ProgWriteDone(1))

PlainFairSpec == PlainSpec /\ PlainFairness

\* The notifications of one connection: subscribers come and go while
\* recv_task dispatches.
NotifNext ==
    \/ RpcConnect
    \/ \E s \in NotifSubs : NotificationsEnter(s)
    \/ \E s \in NotifSubs : NotifYield(s)
    \/ \E s \in NotifSubs : NotifDisconnected(s)
    \/ \E s \in NotifSubs : NotificationsExit(s)
    \/ \E h \in RaisingCallbacks : AppendCallback(h)
    \/ \E parses \in BOOLEAN : RecvNotification(parses)
    \/ \E t \in RespTokens, e \in BOOLEAN : RecvResponse(t, e)
    \/ RecvEof
    \/ ConnTasksExit

NotifSpec == Init /\ [][NotifNext]_vars

\* What the event loop guarantees: a task whose await can end is resumed,
\* the pinger's sleep ends, the task group's parent runs once the group is
\* over.  Nothing obliges the peer to send or a user task to be cancelled.
RpcFairness ==
    /\ WF_vars(\E c \in RpcTasks : RpcSendDone(c) \/ RpcSendFail(c))
    /\ WF_vars(\E c \in RpcTasks : RpcReturn(c))
    /\ WF_vars(RpcRequest(Pinger))
    /\ WF_vars(ConnTasksExit)

RpcFairSpec == RpcSpec /\ RpcFairness

\* Two proxy sessions on one transceiver client: both are opened and may
\* start a program transfer before the events arrive.
RouteNext ==
    \/ \E s \in ProxySessions : px_arrived = 0 /\ ProxyEnter(s)
    \/ \E s \in ProxySessions : px_arrived = 0 /\ ProxyLoopStart(s)
    \/ \E s \in ProxySessions : px_arrived = 0 /\ ProxyProgramTransfer(s)
    \/ \E msg \in RoutedEvents : ProxyDispatch(msg)
    \/ \E s \in ProxySessions : ProxyLoopStep(s)
    \/ \E s \in ProxySessions : ProxyExit(s)
    \/ \E s \in ProxySessions : ProxyCancelled(s)

RouteSpec == Init /\ [][RouteNext]_vars

\* unmarshal as a function: any of the decoded items, unmarshalled into each
\* record type.
UnmarshalInit ==
    /\ ReportInit /\ CpInit /\ RpcInit /\ ProgInit /\ NotifInit /\ IterInit
    /\ ReqInit /\ ProxyInit /\ CoordInit /\ TailInit
    /\ um_struct \in Structs
    /\ um_results = [cls \in Classes |-> None]

UnmarshalNext == \E cls \in Classes : UnmarshalInto(cls)

UnmarshalSpec == UnmarshalInit /\ [][UnmarshalNext]_vars

\* The node task of one node, with every outcome of its awaits.
CoordNext ==
    \/ NodeTaskStart
    \/ GetVersionReturns
    \/ GetVersionRaises
    \/ ProbeSleepDone
    \/ OnOpenReturns
    \/ NextReport
    \/ OnReportReturns
    \/ BodyRaises
    \/ ErrorSleepDone
    \/ NodeCancel

CoordSpec == Init /\ [][CoordNext]_vars

(***************************************************************************)
(* The wire format of report segments, read off the segment history        *)
(***************************************************************************)
HasFirst(seg) == seg[1] >= 128
HasLast(seg) == (seg[1] \div 64) % 2 = 1
NumOf(seg) == seg[1] % 64

RECURSIVE Concat(_)
\* The payloads of a run of segments, joined in wire order.
Concat(segs) ==
    IF segs = << >> THEN << >> ELSE Tail(Head(segs)) \o Concat(Tail(segs))

\* The position of the most recent segment with FIRST (0: none yet).
LastFirstIdx(w) ==
    IF \E i \in 1..Len(w) : HasFirst(w[i])
    THEN CHOOSE i \in 1..Len(w) :
             HasFirst(w[i]) /\ \A j \in (i + 1)..Len(w) : ~HasFirst(w[j])
    ELSE 0

\* The segments from the most recent FIRST on.
SinceFirst(w) ==
    IF LastFirstIdx(w) = 0 THEN << >> ELSE SubSeq(w, LastFirstIdx(w), Len(w))

\* Segment numbers rise by one modulo 64 from the first segment's number.
Sequential(s) ==
    \A i \in 1..Len(s) : NumOf(s[i]) = (NumOf(s[1]) + i - 1) % 64

\* s is a record in transit: FIRST on its first segment only, sequential
\* numbers, no LAST before its last segment.
RecordPrefix(s) ==
    /\ Len(s) >= 1
    /\ HasFirst(s[1])
    /\ \A i \in 2..Len(s) : ~HasFirst(s[i])
    /\ \A i \in 1..(Len(s) - 1) : ~HasLast(s[i])
    /\ Sequential(s)

\* s is a whole record of at least one byte, split into segments.
WholeRecord(s) ==
    RecordPrefix(s) /\ HasLast(s[Len(s)]) /\ Concat(s) # << >>

Registered(s) == \E i \in 1..Len(on_report_callbacks) : on_report_callbacks[i] = s

\* Subscriber s got exactly one more report in this step, made of `record`.
GotOne(s, record) ==
    /\ Len(reports'[s]) = Len(reports[s]) + 1
    /\ SubSeq(reports'[s], 1, Len(reports[s])) = reports[s]
    /\ reports'[s][Len(reports'[s])].report_type = Head(record)
    /\ reports'[s][Len(reports'[s])].payload_cbor = Tail(record)

\* C1: the segments of a record of at least one byte, delivered in order
\* (FIRST on the first, LAST on the last, numbers rising by one modulo 64),
\* give every registered callback exactly one Report: nothing before the
\* LAST segment, and at the LAST segment one report whose report_type is the
\* first byte of the joined payloads and whose payload_cbor is the rest.
C1_RoundTrip ==
    [][wire' # wire =>
        LET s == SinceFirst(wire') IN
        /\ (RecordPrefix(s) /\ ~HasLast(s[Len(s)])) => reports' = reports
        /\ WholeRecord(s) =>
              \A c \in Subs :
                  IF Registered(c) THEN GotOne(c, Concat(s))
                  ELSE reports'[c] = reports[c]]_vars

\* A three-segment record 63, 0, 1 has reached both registered callbacks.
C1_Witness ==
    /\ Len(wire) = 3 /\ WholeRecord(wire) /\ NumOf(wire[1]) = 63
    /\ Len(on_report_callbacks) = 2
    /\ \A c \in Subs : Len(reports[c]) = 1 /\ reports[c][1].report_type = 5

\* C2: a segment with FIRST that arrives while a record is in progress drops
\* the bytes collected so far: assembly restarts from that segment's payload
\* and number, and every Report delivered afterwards is made of the payloads
\* from the most recent FIRST on, never of earlier bytes.
C2_RestartOnFirst ==
    [][wire' # wire =>
        LET seg == wire'[Len(wire')] IN
        /\ (report_buf # None /\ HasFirst(seg) /\ ~HasLast(seg)) =>
              /\ report_buf' = Some([buffer |-> Tail(seg), num_segments |-> 1,
                                     finished |-> FALSE])
              /\ report_next_segment_number' = (NumOf(seg) + 1) % 64
        /\ reports' # reports =>
              \A c \in Subs :
                  Registered(c) => GotOne(c, Concat(SinceFirst(wire')))]_vars

\* A record was cut short by a second FIRST, and the record that restarted
\* there was delivered.
C2_Witness ==
    /\ Len(wire) = 3
    /\ HasFirst(wire[1]) /\ ~HasLast(wire[1]) /\ Tail(wire[1]) # << >>
    /\ HasFirst(wire[2]) /\ ~HasLast(wire[2])
    /\ HasLast(wire[3])
    /\ Len(on_report_callbacks) = 1
    /\ Len(reports[on_report_callbacks[1]]) = 1

\* C3: a segment without FIRST whose number is not the expected one discards
\* the record in progress, and from a break in the numbering on no Report is
\* delivered, whatever the later segments carry (LAST, the number expected
\* before), until a segment with FIRST arrives.
C3_ResyncOnGap ==
    [][wire' # wire =>
        LET seg == wire'[Len(wire')] IN
        /\ (report_buf # None /\ ~HasFirst(seg)
               /\ NumOf(seg) # report_next_segment_number) => report_buf' = None
        /\ ~Sequential(SinceFirst(wire')) => reports' = reports]_vars

\* After FIRST 63 and a gap, a LAST segment with the number expected before
\* the gap (0) arrived and nothing was delivered.
C3_Witness ==
    /\ Len(wire) = 3
    /\ HasFirst(wire[1]) /\ ~HasLast(wire[1]) /\ NumOf(wire[1]) = 63
    /\ ~HasFirst(wire[2]) /\ NumOf(wire[2]) = 1
    /\ ~HasFirst(wire[3]) /\ HasLast(wire[3]) /\ NumOf(wire[3]) = 0
    /\ Len(on_report_callbacks) = 2
    /\ \A c \in Subs : reports[c] = << >>
    /\ report_buf = None

\* C4: control-point requests of one session are serialised: at most one
\* request is in flight at any time, and a caller's frame is written only
\* while no other caller's request is in flight (the earlier one has
\* returned or failed).
C4_Serialised ==
    /\ [](Cardinality({c \in CpCallers : cp_pc[c] = "inflight"}) <= 1)
    /\ [][cp_written' # cp_written =>
            \A d \in CpCallers : cp_pc[d] # "inflight"]_vars

\* Two callers wait for the lock while a third one's request is in flight,
\* after an earlier request already completed.
C4_Witness ==
    /\ Cardinality({c \in CpCallers : cp_pc[c] = "inflight"}) = 1
    /\ Cardinality({c \in CpCallers : cp_pc[c] = "waiting"}) = 2
    /\ Len(cp_written) = 2

(***************************************************************************)
(* Claims about the transceiver RPC table.                                 *)
(***************************************************************************)
\* Task c is inside _request_internal and its future is not resolved yet.
Outstanding(c) ==
    rpc_pc[c] \in {"sending", "awaiting"} /\ rpc_fut[c] = "pending"

\* Task c enters _request_internal in this step.
Issues(c) == rpc_pc[c] = "idle" /\ rpc_pc'[c] = "sending"

\* Task c, awaiting its unresolved future, is cancelled in this step.
CancelledWhileAwaiting(c) ==
    rpc_pc[c] = "awaiting" /\ rpc_fut[c] = "pending" /\ rpc_pc'[c] = "idle"

\* C5: a request issued while the table holds the set S of tokens gets the
\* smallest non-negative integer that is not in S, and registers it.
C5_LowestUnusedToken ==
    [][\A c \in RpcTasks :
         Issues(c) =>
            /\ rpc_token'[c] \notin DOMAIN pending_responses
            /\ \A u \in 0..(rpc_token'[c] - 1) : u \in DOMAIN pending_responses
            /\ DOMAIN pending_responses' = DOMAIN pending_responses \cup {rpc_token'[c]}
      ]_vars

\* A request that took token 0 while token 1 was in the table: a gap is
\* filled before the table grows.
C5_Witness ==
    \E c \in RpcTasks :
        /\ rpc_pc[c] = "sending"
        /\ rpc_token[c] = 0
        /\ DOMAIN pending_responses = {0, 1}
        /\ pending_responses[0] = c

\* C6: whatever the interleaving of the user task and the pinger, two
\* requests outstanding at the same time hold different tokens, and each
\* token's table entry is the future of the request that holds it.
C6_DistinctTokens ==
    /\ \A c, d \in RpcTasks :
          (c # d /\ Outstanding(c) /\ Outstanding(d)) => rpc_token[c] # rpc_token[d]
    /\ \A c \in RpcTasks :
          Outstanding(c) =>
             /\ rpc_token[c] \in DOMAIN pending_responses
             /\ pending_responses[rpc_token[c]] = c

\* The user request and the pinger's request are outstanding together.
C6_Witness ==
    /\ Outstanding("u1")
    /\ Outstanding(Pinger)
    /\ rpc_pc["u1"] = "awaiting"
    /\ rpc_pc[Pinger] = "awaiting"

\* recv_task takes a Response in this step whose token is not in the table
\* or whose request was cancelled.
Unmatched(t) ==
    /\ recv_pc = "reading"
    /\ rpc_last' \in {"unknown", "cancelled"}
    /\ \E e \in BOOLEAN : RecvResponse(t, e)
    /\ \/ t \notin DOMAIN pending_responses
       \/ FutState(pending_responses[t]) = "cancelled"

\* C7: a Response whose token is unknown, or whose request was cancelled,
\* is discarded: no future changes state and every other table entry stays
\* as it is; and a resolved future is never resolved again.
C7_DiscardUnmatched ==
    /\ [][\A t \in RespTokens :
            Unmatched(t) =>
               /\ rpc_fut' = rpc_fut
               /\ DOMAIN pending_responses' = DOMAIN pending_responses \ {t}
               /\ \A k \in DOMAIN pending_responses' :
                     pending_responses'[k] = pending_responses[k]
         ]_vars
    /\ [][\A c \in RpcTasks :
            rpc_fut[c] \in {"result", "error"} =>
               rpc_fut'[c] \in {rpc_fut[c], "none"}
         ]_vars
    /\ [](recv_pc # "InvalidStateError")

\* A Response for a cancelled request has been discarded while another
\* request is still outstanding under its own token.
C7_Witness ==
    /\ rpc_last = "cancelled"
    /\ recv_pc = "reading"
    /\ \E c \in RpcTasks :
          /\ rpc_pc[c] = "awaiting"
          /\ rpc_fut[c] = "pending"
          /\ pending_responses = (rpc_token[c] :> c)
          /\ rpc_token[c] > 0

C9_EofFailsOutstanding ==
    \A c \in Users : (c \in eof_outstanding) ~> (c \notin eof_outstanding)

\* End-of-stream was reported while the user's request was awaiting its
\* response; the connection tasks are over and the caller is still waiting,
\* its token still in the table.
C9_Witness ==
    /\ recv_pc = "ended"
    /\ disconnected
    /\ "u1" \in eof_outstanding
    /\ rpc_pc["u1"] = "awaiting"
    /\ rpc_fut["u1"] = "pending"
    /\ pending_responses[rpc_token["u1"]] = "u1"

(***************************************************************************)
(* Claims about the firmware transfer.                                     *)
(***************************************************************************)
\* Transfer c returns normally in this step.
Returns(c) == prog_pc[c] = "write" /\ prog_pc'[c] = "returned"

\* The offsets other than 0xFFFFFFFF waiting in the queue.
QueuedOffsets ==
    IF program_nack_queue = None THEN << >>
    ELSE SelectSeq(program_nack_queue[1], LAMBDA k : k # TRANSFER_ABORTED)

\* C10 as stated, at the end of a transfer: an offset other than 0xFFFFFFFF
\* notified during the transfer is carried by the next frame written, so
\* the transfer does not return normally while such an offset is still
\* waiting in the queue, never followed by a frame.
C10_NackIsFollowedByFrame ==
    [][\A c \in ProgCallers : Returns(c) => QueuedOffsets = << >>]_vars

\* The node asked for a rewind to offset 0 while the last frame (offset 2)
\* was being written: the transfer has returned after frames 0 and 2 and the
\* offset is still in the queue.
C10_Witness ==
    /\ prog_pc[1] = "returned"
    /\ prog_nacks = 1
    /\ program_nack_queue = Some(<<0>>)
    /\ Len(prog_written) = 2
    /\ prog_written[1] = [task |-> 1, offset |-> 0, data |-> <<11, 12>>,
                           req |-> <<0, 0, 0, 0, 11, 12>>]
    /\ prog_written[2] = [task |-> 1, offset |-> 2, data |-> <<13, 14>>,
                           req |-> <<2, 0, 0, 0, 13, 14>>]

\* Transfer c is inside the body of `async with self._program_lock`.
Transferring(c) == prog_pc[c] \in {"get", "timeout", "sleep", "write"}

\* 0xFFFFFFFF is waiting in the queue.
AbortQueued ==
    /\ program_nack_queue # None
    /\ \E i \in 1..Len(program_nack_queue[1]) :
          program_nack_queue[1][i] = TRANSFER_ABORTED

\* C11 as stated: once 0xFFFFFFFF has been notified during a transfer, that
\* transfer writes no further frame and does not return normally: it fails
\* with the transfer-aborted error and releases the program lock.
C11_AbortStopsTransfer ==
    [][\A c \in ProgCallers :
         (Transferring(c) /\ AbortQueued) =>
            /\ ~(prog_pc[c] = "timeout" /\ prog_pc'[c] = "write")
            /\ prog_pc'[c] # "returned"
            /\ prog_pc'[c] = "aborted" => ~program_locked'
      ]_vars

\* The node signalled abort while the last frame was being written: the
\* transfer has returned normally after frames 0 and 2 and the abort value
\* is still in the queue.
C11_Witness ==
    /\ prog_pc[1] = "returned"
    /\ prog_nacks = 1
    /\ program_nack_queue = Some(<<TRANSFER_ABORTED>>)
    /\ Len(prog_written) = 2
    /\ prog_written[1].offset = 0
    /\ prog_written[2].offset = 2
    /\ prog_written[2].task = 1

\* Transfer c is over: it returned or raised.
TransferOver(c) == prog_pc[c] \in {"returned", "aborted", "failed"}

\* Transfer c enters the body of `async with self._program_lock` in this step.
EntersBody(c) ==
    /\ prog_pc[c] \in {"idle", "locking"}
    /\ prog_pc'[c] \in {"get", "returned"}

\* C12: two concurrent program_transfer calls never interleave their
\* writes: at most one transfer is inside the locked body, a transfer writes
\* a frame only when every other transfer that has written is over, the
\* frames of one transfer are contiguous in the write order, and a transfer
\* entering the body starts with an empty queue of its own.
C12_TransfersDoNotInterleave ==
    /\ [](Cardinality({c \in ProgCallers : Transferring(c)}) <= 1)
    /\ [](\A i, j, k \in 1..Len(prog_written) :
             (i < j /\ j < k /\ prog_written[i].task = prog_written[k].task)
                => prog_written[j].task = prog_written[i].task)
    /\ [][\A c \in ProgCallers :
            (prog_pc[c] = "timeout" /\ prog_pc'[c] = "write") =>
               \A d \in ProgCallers \ {c} :
                  (\E i \in 1..Len(prog_written) : prog_written[i].task = d)
                     => TransferOver(d)
         ]_vars
    /\ [][\A c \in ProgCallers :
            EntersBody(c) => program_nack_queue' = Some(<< >>)
         ]_vars

\* The second transfer waited for the lock while the first wrote its two
\* frames; the first has returned, leaving an offset in its queue, and the
\* lock has been handed to the second, which has not run yet.
C12_Witness ==
    /\ prog_pc[1] = "returned"
    /\ prog_pc[2] = "locking"
    /\ program_waiters = <<[task |-> 2, fut |-> "done"]>>
    /\ ~program_locked
    /\ Len(prog_written) = 2
    /\ \A i \in 1..2 : prog_written[i].task = 1
    /\ program_nack_queue = Some(<<0>>)
    /\ Len(prog_binary[2]) > 0

(***************************************************************************)
(* Claims about report delivery and the reports() iterator.                *)
(***************************************************************************)
\* The segment notified in this step completes a record of at least one byte.
Completes == wire' # wire /\ WholeRecord(SinceFirst(wire'))

\* The report made of the record completed in this step.
CompletedReport ==
    FromRecord(Concat(SinceFirst(wire')), Len(SinceFirst(wire')))

\* C13: a completed report is delivered to every callback registered at
\* that moment.  A raw subscriber gets it whatever the callbacks before it
\* did; a parsing subscriber gets the typed report, or nothing when the type
\* has no class or parse() raises; the exception goes no further, the
\* assembly state is reset, and so it is for every later report.
C13_DeliveryIsolatesErrors ==
    [][Completes =>
          /\ \A s \in Subs :
                IF ~Registered(s) THEN reports'[s] = reports[s]
                ELSE IF ~report_parse[s]
                THEN reports'[s] = Append(reports[s], CompletedReport)
                ELSE IF Parse(CompletedReport).outcome = "parsed"
                THEN reports'[s] = Append(reports[s], Parse(CompletedReport).parsed)
                ELSE reports'[s] = reports[s]
          /\ report_buf' = None
          /\ raised' = "no"
      ]_vars

\* The parsing subscriber is called first and its parse() raised on both
\* reports (type 5 with an empty body); the raw subscriber behind it has got
\* both.
C13_Witness ==
    /\ on_report_callbacks = <<2, 1>>
    /\ report_parse[2] /\ ~report_parse[1]
    /\ wire = << <<255, 5>>, <<255, 5>> >>
    /\ Parse(FromRecord(<<5>>, 1)).outcome = "raises"
    /\ Len(reports[1]) = 2
    /\ reports[2] = << >>
    /\ report_buf = None

(***************************************************************************)
(* Claims about the transceiver's notifications.                           *)
(***************************************************************************)
\* Subscriber s has its callback on the list.
NotifRegistered(s) ==
    \E i \in 1..Len(on_notification_callbacks) : on_notification_callbacks[i] = s

\* recv_task has read a notification in this step and parsed it.
DispatchesNotification ==
    notif_arrived' = notif_arrived + 1 /\ recv_pc' # "UnmarshalError"

RECURSIVE Increasing(_)
\* The sequence of arrival numbers is strictly increasing.
Increasing(seq) ==
    IF Len(seq) < 2 THEN TRUE
    ELSE seq[1] < seq[2] /\ Increasing(Tail(seq))

\* C15: what a notifications() iterator has yielded, followed by what its
\* queue still holds, is in arrival order without repetition: of two
\* notifications it yields, the one that arrived first is yielded first.
C15_ArrivalOrder ==
    \A s \in NotifSubs :
        /\ Increasing(notif_yielded[s] \o notifications[s])
        /\ \A i \in 1..Len(notif_yielded[s]) : notif_yielded[s][i] \in 1..notif_arrived

\* Both iterators have yielded two notifications; subscriber 2, which
\* entered later, has yielded the second and the third.
C15_Witness ==
    /\ notif_yielded[1] = <<1, 2>>
    /\ notif_yielded[2] = <<2, 3>>
    /\ notif_arrived = 3

(***************************************************************************)
(* Claims about the reports() iterators.                                   *)
(***************************************************************************)
\* The Report behind a queue item: the item itself, or the report a parsed
\* item was made of.
RawOf(item) == IF "of" \in DOMAIN item THEN item.of ELSE item

\* The record whose LAST segment is the k-th segment on the wire.
RecordAt(k) == Concat(SinceFirst(SubSeq(wire, 1, k)))

\* C16: what a reports() iterator has yielded, followed by what its queue
\* holds, is one report per LAST segment, in the order in which those LAST
\* segments arrived and none twice; each is the record whose bytes are the
\* payloads of the segments from its FIRST to its LAST, in wire order.
C16_ReportsInWireOrder ==
    \A s \in Subs :
        LET all == report_yielded[s] \o reports[s]
        IN /\ Len(all) = Len(report_at[s])
           /\ Increasing(report_at[s])
           /\ \A i \in 1..Len(all) :
                 LET k == report_at[s][i]
                 IN /\ k \in 1..Len(wire)
                    /\ HasLast(wire[k])
                    /\ RawOf(all[i]).report_type = Head(RecordAt(k))
                    /\ RawOf(all[i]).payload_cbor = Tail(RecordAt(k))

\* Subscriber 1 has been yielded the one-segment record and then the
\* two-segment record.
C16_Witness ==
    /\ wire = << <<SEGMENT_FIRST + SEGMENT_LAST + 63, 5>>,
                 <<SEGMENT_FIRST + 63, 5>>, <<SEGMENT_LAST + 0, 6, 7>> >>
    /\ report_yielded[1] = <<FromRecord(<<5>>, 1), FromRecord(<<5, 6, 7>>, 2)>>
    /\ reports[1] = << >>

\* Subscriber s is suspended in its generator with nothing queued, and the
\* session's disconnection future is resolved.
WaitsDisconnected(s) ==
    s \in report_waiting /\ reports[s] = << >> /\ avss_disconnected

\* C17: a consumer waiting on an empty queue once the disconnection future
\* is resolved (it was waiting before, or it started afterwards) leaves its
\* wait with DisconnectedError and with nothing else, and it does leave it.
C17_DisconnectedEndsIteration ==
    /\ [][\A s \in Subs :
            (WaitsDisconnected(s) /\ s \notin report_waiting') =>
                /\ report_end'[s] = "DisconnectedError"
                /\ report_yielded'[s] = report_yielded[s]]_vars
    /\ \A s \in Subs :
          WaitsDisconnected(s) ~> (report_end[s] = "DisconnectedError")

\* Subscriber 1 was yielded a report and then failed with DisconnectedError;
\* subscriber 2 entered its scope after the last segment and failed without
\* a report.
C17_Witness ==
    /\ avss_disconnected
    /\ report_end[1] = "DisconnectedError"
    /\ report_end[2] = "DisconnectedError"
    /\ report_yielded[1] # << >>
    /\ report_yielded[2] = << >>
    /\ report_at[2] = << >>

(***************************************************************************)
(* Claims about control-point requests over the two bindings.              *)
(***************************************************************************)
\* The request of caller c is inside _request_raw, awaiting its response.
AwaitsResponse(c) == cp_stage[c] \in {"get", "rpc"}

\* The last request that ended was c's and it raised `error`.
EndedWith(c, error) ==
    cp_last.task = c /\ cp_last.outcome = Raises_(error) /\ cp_pc[c] # "inflight"

\* C18: a control-point request that is pending when the session's
\* disconnection future is resolved fails with DisconnectedError (and so
\* gives the mutex back) instead of staying pending.
C18_DisconnectFailsPending ==
    \A c \in ReqCallers :
        (AwaitsResponse(c) /\ avss_disconnected) ~> EndedWith(c, "DisconnectedError")

\* A proxy session is disconnected while caller 1 awaits the answer to
\* avss_request with the mutex held and caller 2 waits for the mutex.
C18_Witness ==
    /\ cp_binding = "proxy"
    /\ avss_disconnected
    /\ cp_stage[1] = "rpc"
    /\ cp_locked
    /\ cp_pc[2] = "waiting"

\* C19: on either binding a control-point request that awaits its response
\* does not await it for ever: without a response it ends (with a timeout
\* error), the mutex is released and the next request goes on.
C19_TimeoutEndsRequest ==
    \A c \in ReqCallers : AwaitsResponse(c) ~> ~AwaitsResponse(c)

\* On a connected proxy session caller 1 awaits the answer to avss_request
\* after every response frame of the behaviour has been used up; caller 2
\* waits for the mutex.
C19_Witness ==
    /\ cp_binding = "proxy"
    /\ ~avss_disconnected
    /\ cp_stage[1] = "rpc"
    /\ cp_indications = MaxIndications
    /\ cp_pc[2] = "waiting"

\* C20: the outcome of a request as a function of the frame _request_raw
\* returned.  A status frame [ResponseCode, op, code] returns None for code
\* OK and raises the error of the code otherwise (Error and the codes
\* without a variant: AVSSControlPointError; OpCodeUnsupported, Busy,
\* BadArgument: their own class), whether or not op is the request's
\* opcode.  A frame that starts with one of the five response opcodes and
\* carries the CBOR map of its record returns the record of that class.  A
\* frame with any other first byte raises AVSSProtocolError.
C20_OutcomeByFrame ==
    cp_last.task # 0 =>
        LET f == cp_last.frame
            o == cp_last.outcome
        IN /\ (Len(f) = 3 /\ f[1] = 1) =>
                 o = CASE f[3] = 1 -> Returns_("None")
                       [] f[3] = 2 -> Raises_("AVSSControlPointError")
                       [] f[3] = 3 -> Raises_("AVSSOpCodeUnsupportedError")
                       [] f[3] = 4 -> Raises_("AVSSBusyError")
                       [] f[3] = 5 -> Raises_("AVSSBadArgumentError")
                       [] OTHER -> Raises_("AVSSControlPointError")
           /\ (Len(f) = 3 /\ f[1] \in {6, 8, 11, 15, 19} /\ Tail(f) = <<6, 7>>) =>
                 o = CASE f[1] = 6 -> Returns_("GetVersionResponse")
                       [] f[1] = 8 -> Returns_("WriteSettingsResponse")
                       [] f[1] = 11 -> Returns_("ApplySettingsResponse")
                       [] f[1] = 15 -> Returns_("WriteSettingsV2Response")
                       [] f[1] = 19 -> Returns_("GetFirmwareInfoResponse")
           /\ (Len(f) >= 1 /\ f[1] \notin {1, 6, 8, 11, 15, 19}) =>
                 o = Raises_("AVSSProtocolError")

\* A GetVersion request answered with the status frame of another opcode
\* and the code Busy has raised AVSSBusyError.
C20_Witness ==
    /\ cp_last.task = 1
    /\ cp_last.opcode = OpCode.GetVersion
    /\ cp_last.frame = <<OpCode.ResponseCode, OpCode.WriteSettings, ResponseCode.Busy>>
    /\ cp_last.outcome = Raises_("AVSSBusyError")

\* The loop of session s takes an event in this step.
Takes(s) == Len(px_seen'[s]) = Len(px_seen[s]) + 1

\* The event the loop of session s takes in this step.
Taken(s) == px_seen'[s][Len(px_seen'[s])]

\* C21: with several proxy sessions on one transceiver client, a report or
\* program event of node A reaches only the session whose address is A: the
\* report assembly of a session changes only when its loop takes a report
\* event carrying its own address, its NACK queue grows only by the offset of
\* a program event carrying its own address, and an event of any other
\* address, node_disconnected included, leaves the session's assembly, NACK
\* queue, loop and disconnected state as they were.
C21_RoutedByAddress ==
    [][\A s \in ProxySessions :
          /\ <<px_report_buf[s], px_report_next[s]>>'
                 # <<px_report_buf[s], px_report_next[s]>>
             => /\ Takes(s)
                /\ Taken(s).cls = "AVSSReportNotifiedEvent"
                /\ Taken(s).address = SessionAddress(s)
          /\ (px_nack_queue[s] # None /\ px_nack_queue'[s] # px_nack_queue[s])
             => /\ Takes(s)
                /\ Taken(s).cls = "AVSSProgramNotifiedEvent"
                /\ Taken(s).address = SessionAddress(s)
                /\ px_nack_queue'[s] = Some(Append(px_nack_queue[s][1], Taken(s).value[1]))
          /\ (Takes(s) /\ Taken(s).address = SessionAddress(s)
                /\ Taken(s).cls = "AVSSReportNotifiedEvent")
             => px_report_buf'[s] # None
          /\ (Takes(s) /\ Taken(s).address = SessionAddress(s)
                /\ Taken(s).cls = "AVSSProgramNotifiedEvent"
                /\ px_nack_queue[s] # None)
             => px_nack_queue'[s] # px_nack_queue[s]
          /\ (Takes(s) /\ Taken(s).address # SessionAddress(s))
             => /\ px_report_buf'[s] = px_report_buf[s]
                /\ px_report_next'[s] = px_report_next[s]
                /\ px_nack_queue'[s] = px_nack_queue[s]
                /\ px_loop'[s] = px_loop[s]
                /\ px_disconnected'[s] = px_disconnected[s]
    ]_vars

\* Session 2 has taken a report and a disconnect event of session
\* 1's node (same address bytes, other address type) and is still running
\* with an empty assembly and an empty NACK queue, while session 1
\* has assembled the segment.
C21_Witness ==
    /\ \E i \in 1..Len(px_seen[2]) :
          /\ px_seen[2][i].cls = "AVSSReportNotifiedEvent"
          /\ px_seen[2][i].address = SessionAddress(1)
    /\ \E i \in 1..Len(px_seen[2]) :
          /\ px_seen[2][i].cls = "NodeDisconnectedEvent"
          /\ px_seen[2][i].address = SessionAddress(1)
    /\ px_report_buf[2] = None
    /\ px_nack_queue[2] = Some(<< >>)
    /\ px_loop[2] = "running"
    /\ ~px_disconnected[2]
    /\ px_report_buf[1] # None
    /\ px_disconnected[1]

\* A capacity below the number of notifications one behaviour delivers.
FifoBound == MaxNotifications - 1

\* C22: the FIFO of a notifications() scope is bounded: it never holds more
\* than its capacity, because the producer drops the oldest queued item when
\* the FIFO is full.
C22_FifoBounded ==
    \A s \in NotifSubs : Len(notifications[s]) <= FifoBound

\* A subscriber that has not taken anything holds every notification that
\* arrived since it entered, the oldest first.
C22_Witness ==
    /\ notif_arrived = MaxNotifications
    /\ notif_yielded[1] = << >>
    /\ Len(notifications[1]) = MaxNotifications
    /\ notifications[1][1] = 1

\* Subscriber s has its callback in self._on_notification_callbacks.
InCallbackList(s) ==
    \E i \in 1..Len(on_notification_callbacks) : on_notification_callbacks[i] = s

Returned(cls) == um_results[cls] # None /\ um_results[cls][1].raised = "no"

\* unmarshal(cls, um_struct) has raised.
Raised(cls) == um_results[cls] # None /\ um_results[cls][1].raised # "no"

\* The attribute `name` of the object unmarshal(cls, um_struct) returned.
Attr(cls, name) == GetAttr(cls, um_results[cls][1].obj, name)

\* um_struct is a dict with key k / the value of its key k.
HasKey(k) == um_struct.t = "dict" /\ \E i \in 1..Len(um_struct.items) : um_struct.items[i].k = k
ValueOf(k) == um_struct.items[CHOOSE i \in 1..Len(um_struct.items) : um_struct.items[i].k = k].v

\* C24: unmarshalling does not depend on the order in which the fields are
\* declared: FooBar declares foo (key 0) before bar (key 1), BarFoo declares
\* bar before foo, and the same dict unmarshalled into both gives equal foo
\* and equal bar (Python's ==, under which True equals 1).
C24_FieldOrderIndependent ==
    (Returned("FooBar") /\ Returned("BarFoo")) =>
        /\ Attr("FooBar", "foo").v = Attr("BarFoo", "foo").v
        /\ Attr("FooBar", "bar").v = Attr("BarFoo", "bar").v

\* The dict {0: 100, 1: True} of the repository's test: FooBar has foo = 100
\* and bar = True, BarFoo has bar = 100 and foo = True.
C24_Witness ==
    /\ um_struct = Dict(<<Item(0, Py("int", 100)), Item(1, Py("bool", 1))>>)
    /\ Returned("FooBar") /\ Returned("BarFoo")
    /\ Attr("FooBar", "foo") = Py("int", 100)
    /\ Attr("FooBar", "bar") = Py("bool", 1)
    /\ Attr("BarFoo", "bar") = Py("int", 100)
    /\ Attr("BarFoo", "foo") = Py("bool", 1)

\* C25: a field declared with a default takes the default when its key is
\* absent from the dict, and the value of its key when the key is present.
C25_DefaultWhenAbsent ==
    \A cls \in Classes :
       Returned(cls) =>
          \A i \in 1..Len(Fields(cls)) :
             LET field == Fields(cls)[i]
             IN field.default # None =>
                   Attr(cls, field.name) =
                      IF HasKey(field.cbor_key) THEN ValueOf(field.cbor_key)
                      ELSE field.default[1]

\* {1: 100} unmarshalled into a record with a: int = cbor_field(0, default=1)
\* and b: int = cbor_field(1, default=2): a has the value of key 1 and b has
\* its default.
C25_Witness ==
    /\ um_struct = Dict(<<Item(1, Py("int", 100))>>)
    /\ Returned("TwoOptional")
    /\ Attr("TwoOptional", "a") = Py("int", 100)
    /\ Attr("TwoOptional", "b") = Py("int", 2)

\* C26: a HealthReport unmarshals without error from a dict that has the
\* keys 0..6 and lacks the keys 7, 8 and 9.
C26_HealthWithoutClockSync ==
    (um_struct = Dict(HealthItems(7)) /\ um_results["HealthReport"] # None)
        => Returned("HealthReport")

\* The dict with the keys 0..6 has been unmarshalled into HealthReport and
\* the call raised TypeError; the dict with the keys 0..9 unmarshals.
C26_Witness ==
    /\ um_struct = Dict(HealthItems(7))
    /\ Raised("HealthReport")
    /\ um_results["HealthReport"][1].raised = "TypeError"
    /\ Unmarshal("HealthReport", Dict(HealthItems(10))).raised = "no"

\* C27: unmarshalling from a dict that lacks the key of a field declared
\* without default raises TypeError and returns no object.
C27_MissingRequiredFails ==
    \A cls \in Classes :
       (/\ um_results[cls] # None
        /\ um_struct.t = "dict"
        /\ \E i \in 1..Len(Fields(cls)) :
              /\ Fields(cls)[i].default = None
              /\ ~HasKey(Fields(cls)[i].cbor_key))
       => um_results[cls][1].raised = "TypeError"

\* {1: 100} unmarshalled into a record with a: int = cbor_field(0) and
\* b: int = cbor_field(1, default=2) returns an object whose a is the value
\* of key 1, although key 0 is absent.
C27_Witness ==
    /\ um_struct = Dict(<<Item(1, Py("int", 100))>>)
    /\ Returned("RequiredThenOptional")
    /\ Attr("RequiredThenOptional", "a") = Py("int", 100)
    /\ Attr("RequiredThenOptional", "b") = Py("int", 2)

\* C28: unmarshalling a record type from a value that is not a dict raises
\* ValueError, and the record without fields unmarshals from the empty dict.
C28_NonDictIsValueError ==
    \A cls \in Classes :
       um_results[cls] # None =>
          /\ um_struct.t # "dict" => um_results[cls][1].raised = "ValueError"
          /\ (cls = "Foo" /\ um_struct = Dict(<< >>)) => Returned(cls)

\* The empty list unmarshalled into the record without fields raised
\* AttributeError.
C28_Witness ==
    /\ um_struct = List(<< >>)
    /\ Raised("Foo")
    /\ um_results["Foo"][1].raised = "AttributeError"

\* The dict has a key that cls does not declare, and every key cls declares
\* with a value of the field's type.
WellFormedWithUnknownKey(cls) ==
    /\ um_struct.t = "dict"
    /\ \E i \in 1..Len(um_struct.items) : FieldByKey(cls, um_struct.items[i].k) = None
    /\ \A i \in 1..Len(Fields(cls)) :
          /\ HasKey(Fields(cls)[i].cbor_key)
          /\ IsInstance(ValueOf(Fields(cls)[i].cbor_key), Fields(cls)[i].type)

\* C29: keys that the record does not declare are ignored: the dict
\* unmarshals and every declared field has the value of its own key, wherever
\* the unknown keys stand in the dict.
C29_UnknownKeysIgnored ==
    \A cls \in Classes :
       (um_results[cls] # None /\ WellFormedWithUnknownKey(cls)) =>
          /\ Returned(cls)
          /\ \A i \in 1..Len(Fields(cls)) :
                Attr(cls, Fields(cls)[i].name) = ValueOf(Fields(cls)[i].cbor_key)

\* {1: True, 7: 100, 0: 100} unmarshalled into FooBar: foo is True and bar
\* is 100.
C29_Witness ==
    /\ um_struct = Dict(<<Item(1, Py("bool", 1)), Item(7, Py("int", 100)),
                          Item(0, Py("int", 100))>>)
    /\ Returned("FooBar")
    /\ Attr("FooBar", "foo") = Py("bool", 1)
    /\ Attr("FooBar", "bar") = Py("int", 100)

\* The node task is over.
NodeTaskOver(pc) == pc \in {"returned", "cancelled", "failed"}

\* C30: the node task calls on_avss_open only when get_version has returned
\* on the session that is open; a failure of get_version is followed by a
\* pause and another get_version on the same session; an Exception anywhere
\* else in the body closes the session and, after the pause of the outer
\* handler, the task opens a new session and starts over with get_version;
\* the task only ends when it has been cancelled.
C30_NodeTaskRestarts ==
    [][/\ (nt_pc' = "on_avss_open" /\ nt_pc # "on_avss_open")
          => /\ nt_pc = "get_version"
             /\ nt_open'
             /\ nt_version_session' = nt_sessions'
             /\ nt_on_open' = Append(nt_on_open, nt_sessions')
       /\ nt_probes' = nt_probes + 1
          => nt_pc' = "probe_sleep" /\ nt_open' /\ nt_sessions' = nt_sessions
       /\ (nt_pc = "probe_sleep" /\ ~nt_cancel')
          => nt_pc' = "get_version" /\ nt_open' /\ nt_sessions' = nt_sessions
       /\ (nt_open /\ ~nt_open' /\ ~nt_cancel')
          => nt_pc' = "error_sleep"
       /\ (nt_pc = "error_sleep" /\ ~nt_cancel')
          => /\ nt_pc' = "get_version"
             /\ nt_open'
             /\ nt_sessions' = nt_sessions + 1
       /\ NodeTaskOver(nt_pc') => nt_cancel'
    ]_vars

\* on_avss_open raised in the first session; the task has opened a second
\* session, get_version failed once and then returned on it, on_avss_open
\* has run on it and the task is streaming reports.
C30_Witness ==
    /\ nt_sessions = 2
    /\ nt_on_open = <<1, 2>>
    /\ nt_cause = "get_version"
    /\ nt_probes = 1
    /\ nt_pc = "reports"
    /\ nt_open
    /\ ~nt_cancel

(***************************************************************************)
(* Claims C31..C40.                                                        *)
(***************************************************************************)
\* The frames a transfer of `binary` in chunks of `size` bytes writes when
\* it is never rewound: frame k starts at (k-1)*size and carries the bytes up
\* to the chunk's end or the image's end, after the four offset bytes.
InSyncFrames(binary, size) ==
    LET L == Len(binary)
        count == (L + size - 1) \div size
    IN [k \in 1..count |->
          LET offset == (k - 1) * size
              n == IF size < L - offset THEN size ELSE L - offset
          IN <<offset % 256, (offset \div 256) % 256, (offset \div 65536) % 256,
               (offset \div 16777216) % 256>>
             \o [i \in 1..n |-> binary[offset + i]]]

\* C31: with no NACK, program_transfer of an image of length L writes
\* exactly ceil(L / (att_mtu - 7)) frames, at the offsets 0, chunk_size,
\* 2*chunk_size, ... in this order, each the little-endian offset followed by
\* min(chunk_size, L - offset) image bytes, and then returns with the program
\* lock released.
C31_InSyncTransfer ==
    /\ [](prog_pc[1] = "returned" =>
             /\ [k \in 1..Len(prog_written) |-> prog_written[k].req]
                   = InSyncFrames(prog_binary[1], prog_att_mtu[1] - 7)
             /\ ~program_locked)
    /\ [](\A k \in 1..Len(prog_written) :
             prog_written[k].req
                = InSyncFrames(prog_binary[1], prog_att_mtu[1] - 7)[k])
    /\ [](prog_pc[1] # "idle" => <>(prog_pc[1] = "returned"))

\* The image of five bytes in chunks of two: three frames, the last with one
\* byte, and the transfer has returned.
C31_Witness ==
    /\ prog_pc[1] = "returned"
    /\ prog_att_mtu[1] = 9
    /\ Len(prog_binary[1]) = 5
    /\ ~program_locked
    /\ [k \in 1..Len(prog_written) |-> prog_written[k].req]
          = <<<<0, 0, 0, 0, 11, 12>>, <<2, 0, 0, 0, 13, 14>>, <<4, 0, 0, 0, 15>>>>


\* connect() and the requests around it: the pinger may request "ping" while
\* the discovery is awaited, callers request once connect() has returned.
DiscNext ==
    \/ Connect
    \/ \E table \in MethodTables : DiscoverReturns(table)
    \/ DiscoverRaises
    \/ \E method \in MethodNames : Request(method)
    \/ DiscoverMethods

DiscSpec == Init /\ [][DiscNext]_vars

\* The frame was sent after connect() had returned.
SentAfterConnect(e) == e.connect \in {"connected", "rediscover"}

\* C32: connect() has returned only if a response of the discovery request
\* was received; the discovery request of connect() carries its name as a
\* string; and every request sent after connect() returned carries the
\* integer id of its name in the table held at that time when the name is in
\* the table, and the name string when it is not.
C32_DiscoveredMethodIds ==
    /\ conn_pc \in {"connected", "rediscover"} => discovered
    /\ \A i \in 1..Len(rq_sent) :
        LET e == rq_sent[i] IN
        /\ e.connect = "new" =>
              e.method_id = [kind |-> "str", id |-> 0,
                             name |-> ".well-known/methods"]
        /\ SentAfterConnect(e) =>
              /\ \A t \in e.known :
                    t.name = e.method =>
                        e.method_id = [kind |-> "int", id |-> t.id, name |-> ""]
              /\ (\A t \in e.known : t.name # e.method) =>
                    e.method_id = [kind |-> "str", id |-> 0, name |-> e.method]

\* After connect() returned, one request went out with an id and one with
\* its name.
C32_Witness ==
    /\ conn_pc = "connected"
    /\ \E i, j \in 1..Len(rq_sent) :
        /\ SentAfterConnect(rq_sent[i]) /\ rq_sent[i].method_id.kind = "int"
        /\ SentAfterConnect(rq_sent[j]) /\ rq_sent[j].method_id.kind = "str"


\* The proxy sessions until their end: every event, the scope exits at any
\* point, and the loss of the transceiver connection, after which recv_task
\* dispatches nothing.
SessNext ==
    \/ \E s \in ProxySessions : px_arrived = 0 /\ ProxyEnter(s)
    \/ \E s \in ProxySessions : px_arrived = 0 /\ ProxyLoopStart(s)
    \/ \E msg \in RoutedEvents :
          ~px_transceiver_disconnected /\ ProxyDispatch(msg)
    \/ \E s \in ProxySessions : ProxyLoopStep(s)
    \/ \E s \in ProxySessions : ProxyExit(s)
    \/ \E s \in ProxySessions : ProxyCancelled(s)
    \/ TransceiverDisconnected
    \/ \E s \in ProxySessions : ProxyLoopRaises(s)

SessSpec == Init /\ [][SessNext]_vars

\* The callback of session s is in the transceiver client's callback list.
Subscribed(s) == px_loop[s] \in {"running", "cancelling"}

\* The loop of session s takes node_disconnected of its own address.
TakesOwnDisconnect(s) ==
    /\ Takes(s)
    /\ Taken(s).cls = "NodeDisconnectedEvent"
    /\ Taken(s).address = SessionAddress(s)

\* Nothing is fed to session s in this step.
NotFed(s) ==
    /\ px_seen'[s] = px_seen[s]
    /\ px_report_buf'[s] = px_report_buf[s]
    /\ px_report_next'[s] = px_report_next[s]
    /\ px_nack_queue'[s] = px_nack_queue[s]

\* C33: the loop that takes node_disconnected of its own address ends with
\* the session's disconnection future resolved; a session whose routing task
\* has ended, by that event, by the exit of the session scope or by the loss
\* of the transceiver connection, has its disconnection future resolved and
\* its callback removed from the transceiver client's list; and from the
\* scope exit or the end of the task on nothing is fed to the session.
C33_SessionEnds ==
    /\ [](\A s \in ProxySessions :
            px_loop[s] = "done" => px_disconnected[s] /\ ~Subscribed(s))
    /\ [][\A s \in ProxySessions :
            /\ TakesOwnDisconnect(s) =>
                  px_loop'[s] = "done" /\ px_disconnected'[s]
            /\ px_loop[s] \in {"cancelling", "done"} => NotFed(s)
       ]_vars

\* The routing task of a session has ended and its disconnection future is
\* not resolved.
C33_Witness ==
    \E s \in ProxySessions : px_loop[s] = "done" /\ ~px_disconnected[s]


\* The number of notifications dispatched before and while the scope is left.
MaxExitNotifications == 1

\* One connection from connect() to the exit of the client's scope: the
\* pinger pings, notifications reach the iterators, the connection may be
\* lost or aborted before the scope is left.  The iterators enter before
\* the first notification.
ExitNext ==
    \/ RpcConnect
    \/ RpcRequest(Pinger)
    \/ RpcSendDone(Pinger)
    \/ \E t \in RespTokens, e \in BOOLEAN : RecvResponse(t, e)
    \/ RpcReturn(Pinger)
    \/ notif_arrived < MaxExitNotifications /\ RecvNotification(TRUE)
    \/ RecvEof
    \/ RecvMalformed
    \/ \E s \in NotifSubs : notif_arrived = 0 /\ NotificationsEnter(s)
    \/ \E s \in NotifSubs : NotifYield(s)
    \/ \E s \in NotifSubs : NotifDisconnected(s)
    \/ Aexit
    \/ ConnCancelled
    \/ ConnTasksExit
    \/ AexitReturns

ExitSpec == Init /\ [][ExitNext]_vars

\* The event loop resumes the cancelled connection task, the parent of a
\* task group that is over, the task in transport.close() and the iterators
\* whose wait is over.
ExitFairness ==
    /\ WF_vars(ConnCancelled)
    /\ WF_vars(ConnTasksExit)
    /\ WF_vars(AexitReturns)
    /\ \A s \in NotifSubs : WF_vars(NotifYield(s))
    /\ \A s \in NotifSubs : WF_vars(NotifDisconnected(s))

ExitFairSpec == ExitSpec /\ ExitFairness

\* The exit of the scope has reached the connection's tasks: the task group
\* has aborted, or the connection task was over when the scope was left.
ExitTookEffect == exit_pc # "in" /\ conn_cancel # "requested"

\* ping_task sends a ping in this step.
PingSent == rpc_pc[Pinger] = "idle" /\ rpc_pc'[Pinger] = "sending"

\* recv_task dispatches a notification in this step.
NotificationDispatched == notif_arrived' # notif_arrived

FramesOf(c) == SelectSeq(prog_written, LAMBDA f : f.task = c)

\* C35: whatever offsets the node notifies, every frame written carries an
\* offset below the length of the image and a chunk that is not empty, not
\* longer than chunk_size and equal to the image's bytes at that offset; and
\* a transfer that has returned wrote, as its last frame, the one that ends
\* at the end of the image.
C35_FramesWithinImage ==
    /\ \A i \in 1..Len(prog_written) :
          LET f == prog_written[i]
              binary == prog_binary[f.task]
          IN /\ f.offset >= 0 /\ f.offset < Len(binary)
             /\ f.data # << >>
             /\ Len(f.data) <= prog_chunk_size[f.task]
             /\ f.data = Slice(binary, f.offset, f.offset + Len(f.data))
    /\ \A c \in ProgCallers :
          (prog_pc[c] = "returned" /\ Len(prog_binary[c]) > 0) =>
             LET frames == FramesOf(c)
                 last == frames[Len(frames)]
             IN /\ frames # << >>
                /\ last.offset + Len(last.data) = Len(prog_binary[c])

\* A transfer has returned after a frame whose offset lies beyond the image.
C35_Witness ==
    \E c \in ProgCallers :
        /\ prog_pc[c] = "returned"
        /\ \E i \in 1..Len(prog_written) :
              /\ prog_written[i].task = c
              /\ prog_written[i].offset >= Len(prog_binary[c])
              /\ prog_written[i].data = << >>


\* _on_report_notify handles a segment with the LAST flag in this step.
HandlesLast == Len(wire') = Len(wire) + 1 /\ HasLast(wire'[Len(wire')])

\* C36: the assembly state never holds a finished buffer, no call of
\* _on_report_notify raises to its caller, and after the call that handled a
\* segment with the LAST flag, whatever the segment, the session holds no
\* buffer.
C36_NoFinishedBuffer ==
    /\ [](report_buf # None => ~report_buf[1].finished)
    /\ [](raised = "no")
    /\ [][HandlesLast => report_buf' = None]_vars

\* The handler raised on a LAST segment and left the finished buffer behind.
C36_Witness ==
    /\ wire # << >>
    /\ HasLast(wire[Len(wire)])
    /\ raised = "IndexError"
    /\ report_buf # None
    /\ report_buf[1].finished


\* The requests of one BLE session, each answered by the node once, at any
\* time after its write or never.
SlotNext ==
    \/ SlotRequestRaw
    \/ SlotWriteDone
    \/ \E k \in 1..MaxSlotRequests : SlotCpIndicate(k)
    \/ SlotGet
    \/ SlotTimeout

SlotSpec == Init /\ [][SlotNext]_vars

\* C37: on the BLE binding the k-th request returns the node's response to
\* request k or times out, never the response to another request, and
\* _cp_indicate never fails on a full slot.
C37_OwnResponseOnly ==
    /\ \A k \in 1..Len(slot_results) : slot_results[k] \in {k, TimedOut}
    /\ slot_indicate # "QueueFull"

\* Request 1 timed out and request 2 returned the response to request 1.
C37_Witness ==
    /\ Len(slot_results) >= 2
    /\ slot_results[1] = TimedOut
    /\ slot_results[2] = 1


\* Requests on a connection whose receiver stays up and whose callers are
\* never cancelled: the only failure is that of the transport's send.
SendNext ==
    \/ RpcConnect
    \/ \E c \in RpcTasks : RpcRequest(c)
    \/ \E c \in RpcTasks : RpcSendDone(c)
    \/ \E c \in RpcTasks : RpcSendFail(c)
    \/ \E c \in RpcTasks : RpcReturn(c)
    \/ \E t \in RespTokens, e \in BOOLEAN : RecvResponse(t, e)

SendSpec == Init /\ [][SendNext]_vars

\* C38: the table holds exactly the tokens of the requests whose callers are
\* inside _request_internal with their future unresolved; in particular a
\* request whose send failed has left no entry, and when no caller is inside
\* a request the table is empty and the next token is 0.
C38_TableIsOutstanding ==
    /\ DOMAIN pending_responses = {rpc_token[c] : c \in {t \in RpcTasks : Outstanding(t)}}
    /\ (\A c \in RpcTasks : ~Outstanding(c)) =>
          /\ pending_responses = << >>
          /\ LowestUnused(0, pending_responses) = 0

\* No caller is inside a request, the receiver is reading, and the table
\* holds the entry of a request whose send failed: the next token is not 0.
C38_Witness ==
    /\ rpc_conn = "open"
    /\ recv_pc = "reading"
    /\ \A c \in RpcTasks : rpc_pc[c] \in {"idle", "stopped"}
    /\ DOMAIN pending_responses = {0}
    /\ pending_responses[0] = "pending"
    /\ LowestUnused(0, pending_responses) = 1


\* One call of find_avss_node_by_address, with every answer of the two
\* queries, events dispatched at any point, and the loss of the connection.
FindNext ==
    \/ FindAvssNodeByAddress
    \/ \E is_assigned \in BOOLEAN : GetAssignedNodesReturns(is_assigned)
    \/ \E is_connected \in BOOLEAN : GetConnectedNodesReturns(is_connected)
    \/ \E msg \in FindEvents : FindDispatch(msg)
    \/ FindStep
    \/ FindRaises
    \/ TransceiverDisconnected

FindSpec == Init /\ [][FindNext]_vars

\* The transceiver answers the two queries and the event loop resumes the
\* iterating call.
FindFairness ==
    /\ WF_vars(\E is_assigned \in BOOLEAN : GetAssignedNodesReturns(is_assigned))
    /\ WF_vars(\E is_connected \in BOOLEAN : GetConnectedNodesReturns(is_connected))
    /\ WF_vars(FindStep)

FindFairSpec == FindSpec /\ FindFairness

SuperNext ==
    \/ \E nodes \in NodeConfigs : TransceiverTask(nodes)
    \/ TransceiverConnect
    \/ TransceiverLost
    \/ SpawnNodeTasks
    \/ SetupRaises
    \/ TransceiverSleepDone
    \/ TaskGroupExit
    \/ \E n \in SuperNodes : NodeGetVersionReturns(n)
    \/ \E n \in SuperNodes : NodeGetVersionRaises(n)
    \/ \E n \in SuperNodes : NodeProbeSleepDone(n)
    \/ \E n \in SuperNodes : NodeBodyRaises(n)
    \/ \E n \in SuperNodes : NodeErrorSleepDone(n)

SuperSpec == Init /\ [][SuperNext]_vars

\* Sleeps end, a raised exception is handled, a task group that is over is
\* left, and on a lost connection the requests and the iterators fail.
SuperFairness ==
    /\ WF_vars(TransceiverConnect)
    /\ WF_vars(TransceiverSleepDone)
    /\ WF_vars(TaskGroupExit)
    /\ WF_vars(tt_transceiver = "lost" /\ SetupRaises)
    /\ \A n \in SuperNodes :
          /\ WF_vars(tt_transceiver = "lost" /\ NodeGetVersionRaises(n))
          /\ WF_vars(tt_transceiver = "lost" /\ NodeBodyRaises(n))
          /\ WF_vars(NodeProbeSleepDone(n))
          /\ WF_vars(NodeErrorSleepDone(n))

SuperFairSpec == SuperSpec /\ SuperFairness

\* C40: when the connection is lost while the transceiver task awaits its
\* node tasks, the task eventually leaves the task group and is back in
\* _transceiver_connect.
C40_ReconnectsAfterLoss ==
    [](tt_transceiver = "lost" /\ tt_pc = "group" => <>(tt_pc = "connect"))

\* The connection is lost, the transceiver task awaits its node tasks, and
\* a node task is in the sleep of its probe loop.
C40_Witness ==
    /\ tt_transceiver = "lost"
    /\ tt_pc = "group"
    /\ \E n \in SuperNodes : tt_node[n] = "probe_sleep"

====
